---- MODULE Spec2Model ----
(***************************************************************************)
(* A model of clox: the single-pass Pratt compiler of compiler.c, the      *)
(* string heap of object.c and the stack VM it feeds.                      *)
(*                                                                         *)
(* The compiler is recursive descent.  Its C call stack is the variable    *)
(* cstack; every C function that (transitively) recurses is cut at its     *)
(* recursive calls into segments, one action per segment, named after the  *)
(* function.  Functions that do not recurse (advance, consume, emitByte,   *)
(* patchJump, addLocal, ...) are operators over the record W of the        *)
(* program's globals.                                                      *)
(***************************************************************************)
EXTENDS Integers, Sequences, FiniteSets, TLC

VARIABLES
  scanner,   \* the scanner: the source's tokens and the cursor
  parser,    \* Parser parser: previous, current, hadError, panicMode
  current,   \* Compiler* current: the chain of Compiler frames, innermost last
  vm,        \* VM vm: frames, stack, globals, strings, objects
  errout,    \* what was written to stderr
  stdout,    \* what print wrote to stdout
  cstack,    \* the C call stack of the compiler and of interpret()
  result,    \* what compile() returned, what interpret() returned
  audit      \* history: what the properties need to remember of the run

vars == <<scanner, parser, current, vm, errout, stdout, cstack, result, audit>>

----------------------------------------------------------------------------
(* Limits of the program.                                                  *)

UINT8_MAX == 255
UINT8_COUNT == 256
UINT16_MAX == 65535
FramesMaxOneMore == 64 + 1
FRAMES_MAX == 64
STACK_MAX == FRAMES_MAX * UINT8_COUNT
NULL == 0

(* Bounds of the model.                                                    *)
MaxLen == 3        \* every token stream of at most this length is compiled

Min(a, b) == IF a < b THEN a ELSE b
Last(s) == s[Len(s)]
Front(s) == SubSeq(s, 1, Len(s) - 1)

----------------------------------------------------------------------------
(* Opcodes (chunk.h), in the order of the enum.                            *)

Op ==
  [OP_CONSTANT |-> 0, OP_NIL |-> 1, OP_TRUE |-> 2, OP_FALSE |-> 3,
   OP_POP |-> 4, OP_GET_LOCAL |-> 5, OP_SET_LOCAL |-> 6,
   OP_GET_GLOBAL |-> 7, OP_DEFINE_GLOBAL |-> 8, OP_SET_GLOBAL |-> 9,
   OP_EQUAL |-> 10, OP_GREATER |-> 11, OP_LESS |-> 12, OP_ADD |-> 13,
   OP_SUBTRACT |-> 14, OP_MULTIPY |-> 15, OP_DIVIDE |-> 16, OP_NOT |-> 17,
   OP_NEGATE |-> 18, OP_PRINT |-> 19, OP_JUMP |-> 20,
   OP_JUMP_IF_FALSE |-> 21, OP_LOOP |-> 22, OP_CALL |-> 23,
   OP_RETURN |-> 24]

(* The number of operand bytes that follow an opcode.                      *)
OperandBytes(op) ==
  IF op \in {Op.OP_JUMP, Op.OP_JUMP_IF_FALSE, Op.OP_LOOP} THEN 2
  ELSE IF op \in {Op.OP_CONSTANT, Op.OP_GET_LOCAL, Op.OP_SET_LOCAL, Op.OP_GET_GLOBAL,
                  Op.OP_DEFINE_GLOBAL, Op.OP_SET_GLOBAL, Op.OP_CALL} THEN 1
  ELSE 0

----------------------------------------------------------------------------
(* Values (value.h): a tag and a payload.  A number is modelled by an      *)
(* integer, a boolean by 0/1, an object by its index in vm.objects.        *)

NIL_VAL == [t |-> "nil", v |-> 0]
BOOL_VAL(b) == [t |-> "bool", v |-> IF b THEN 1 ELSE 0]
NUMBER_VAL(n) == [t |-> "number", v |-> n]
OBJ_VAL(o) == [t |-> "obj", v |-> o]
IS_NIL(x) == x.t = "nil"
IS_BOOL(x) == x.t = "bool"
IS_NUMBER(x) == x.t = "number"
IS_OBJ(x) == x.t = "obj"

----------------------------------------------------------------------------
(* Tokens (scanner.h).  A lexeme is its sequence of bytes.                 *)

Tok(type, lex) == [type |-> type, lex |-> lex]
EOFTok == Tok("TOKEN_EOF", <<>>)
NoTok == Tok("TOKEN_NONE", <<>>)

(* scanToken(): the next token of the source, TOKEN_EOF for ever at its    *)
(* end.  A lexical error is a TOKEN_ERROR token of the stream.             *)
scanToken(sc) ==
  IF sc.pos <= Len(sc.tokens)
  THEN [tok |-> sc.tokens[sc.pos], sc |-> [sc EXCEPT !.pos = @ + 1]]
  ELSE [tok |-> EOFTok, sc |-> sc]

(* The message a TOKEN_ERROR token carries in place of a lexeme.           *)
ErrorMessage(tok) ==
  IF tok.lex = <<34>> THEN "Unterminated string." ELSE "Unexpected character."

----------------------------------------------------------------------------
(* The string heap: hashString, the intern table, copyString, takeString.  *)

(* F(x) with x evaluated once, before F.                                   *)
Once(x, F(_)) == CHOOSE r \in {F(v) : v \in {x}} : TRUE

RECURSIVE Xor8(_, _, _)
Xor8(a, b, bits) ==
  IF bits = 0 THEN 0
  ELSE ((a + b) % 2) + 2 * Xor8(a \div 2, b \div 2, bits - 1)

(* A uint32_t hash is kept as its two 16-bit halves [hi, lo], so that no    *)
(* product below leaves the integers TLC computes with.                    *)
(* hash ^= key[i] for a byte key[i]: only the low byte of hash changes.    *)
XorByte(hash, byte) ==
  [hash EXCEPT !.lo = (@ \div 256) * 256 + Xor8(@ % 256, byte, 8)]

(* hash *= 16777619 in 32 bits: 16777619 = 256 * 65536 + 403.              *)
MulPrime(hash) ==
  [hi |-> (hash.hi * 403 + hash.lo * 256 + (hash.lo * 403) \div 65536) % 65536,
   lo |-> (hash.lo * 403) % 65536]

RECURSIVE hashFrom(_, _, _)
hashFrom(key, i, hash) ==
  IF i > Len(key) THEN hash
  ELSE hashFrom(key, i + 1, MulPrime(XorByte(hash, key[i])))

(* FNV-1a from 2166136261 = 33052 * 65536 + 40389.                         *)
hashString(key) == hashFrom(key, 1, [hi |-> 33052, lo |-> 40389])

(* hash % capacity.                                                        *)
HashMod(hash, capacity) ==
  ((hash.hi % capacity) * (65536 % capacity) + hash.lo) % capacity

(* Table (table.c): open addressing, linear probing.  An entry is a key    *)
(* (NULL or an ObjString) and a value; a tombstone is (NULL, true).        *)
EmptyEntry == [key |-> NULL, value |-> NIL_VAL]
EmptyTable == [count |-> 0, capacity |-> 0, entries |-> <<>>]

RECURSIVE findEntryFrom(_, _, _, _, _)
findEntryFrom(entries, capacity, key, index, tombstone) ==
  LET entry == entries[index + 1] IN
  IF entry.key = NULL
  THEN IF IS_NIL(entry.value)
       THEN (IF tombstone # -1 THEN tombstone ELSE index)
       ELSE findEntryFrom(entries, capacity, key, (index + 1) % capacity,
                          IF tombstone = -1 THEN index ELSE tombstone)
  ELSE IF entry.key = key THEN index
  ELSE findEntryFrom(entries, capacity, key, (index + 1) % capacity, tombstone)

findEntry(entries, capacity, key, objects) ==
  findEntryFrom(entries, capacity, key, HashMod(objects[key].hash, capacity), -1)

RECURSIVE rehashFrom(_, _, _, _, _)
rehashFrom(old, i, entries, capacity, objects) ==
  IF i > Len(old) THEN entries
  ELSE IF old[i].key = NULL
       THEN rehashFrom(old, i + 1, entries, capacity, objects)
       ELSE LET dest == findEntry(entries, capacity, old[i].key, objects)
            IN rehashFrom(old, i + 1, [entries EXCEPT ![dest + 1] = old[i]],
                          capacity, objects)

adjustCapacity(table, capacity, objects) ==
  LET entries == rehashFrom(table.entries, 1,
                            [i \in 1..capacity |-> EmptyEntry], capacity, objects)
  IN [count |-> Cardinality({i \in 1..capacity : entries[i].key # NULL}),
      capacity |-> capacity, entries |-> entries]

GROW_CAPACITY(capacity) == IF capacity < 8 THEN 8 ELSE capacity * 2

(* tableSet: grows at load factor 0.75, then stores; r is isNewKey.        *)
tableSet(table, key, value, objects) ==
  LET store(t1, index) ==
        LET entry == t1.entries[index + 1]
            isNewKey == entry.key = NULL
        IN [t |-> [t1 EXCEPT !.count = IF isNewKey /\ IS_NIL(entry.value)
                                        THEN @ + 1 ELSE @,
                             !.entries[index + 1] =
                                [key |-> key, value |-> value]],
            r |-> isNewKey]
      find(t1) == store(t1, findEntry(t1.entries, t1.capacity, key, objects))
  IN find(IF 4 * (table.count + 1) > 3 * table.capacity
          THEN adjustCapacity(table, GROW_CAPACITY(table.capacity), objects)
          ELSE table)

(* tableGet: r is the value, found says whether the key is there.          *)
tableGet(table, key, objects) ==
  IF table.count = 0 THEN [found |-> FALSE, r |-> NIL_VAL]
  ELSE LET entry == table.entries[findEntry(table.entries, table.capacity,
                                            key, objects) + 1]
       IN IF entry.key = NULL THEN [found |-> FALSE, r |-> NIL_VAL]
          ELSE [found |-> TRUE, r |-> entry.value]

(* tableDelete: leaves a tombstone.                                        *)
tableDelete(table, key, objects) ==
  IF table.count = 0 THEN table
  ELSE LET index == findEntry(table.entries, table.capacity, key, objects)
       IN IF table.entries[index + 1].key = NULL THEN table
          ELSE [table EXCEPT !.entries[index + 1] =
                               [key |-> NULL, value |-> BOOL_VAL(TRUE)]]

RECURSIVE findStringFrom(_, _, _, _, _)
findStringFrom(table, chars, hash, index, objects) ==
  LET entry == table.entries[index + 1] IN
  IF entry.key = NULL
  THEN IF IS_NIL(entry.value) THEN NULL
       ELSE findStringFrom(table, chars, hash, (index + 1) % table.capacity,
                           objects)
  ELSE IF /\ Len(objects[entry.key].chars) = Len(chars)
          /\ objects[entry.key].hash = hash
          /\ objects[entry.key].chars = chars
       THEN entry.key
  ELSE findStringFrom(table, chars, hash, (index + 1) % table.capacity, objects)

tableFindString(table, chars, hash, objects) ==
  IF table.count = 0 THEN NULL
  ELSE findStringFrom(table, chars, hash, HashMod(hash, table.capacity), objects)

(* allocateString: a new ObjString at the head of vm.objects, entered in   *)
(* vm.strings.  r is the new object.                                       *)
allocateString(V, chars, hash) ==
  LET objects == Append(V.objects,
                        [type |-> "OBJ_STRING", chars |-> chars, hash |-> hash])
      string == Len(objects)
  IN [v |-> [V EXCEPT !.objects = objects,
                      !.strings = tableSet(V.strings, string, NIL_VAL, objects).t],
      r |-> string]

(* copyString without the look-up in vm.strings: the fault that interning  *)
(* must exclude.                                                           *)
copyStringNoLookup(V, chars) == allocateString(V, chars, hashString(chars))

copyString(V, chars) ==
  LET found(hash, interned) ==
        IF interned # NULL THEN [v |-> V, r |-> interned]
        ELSE allocateString(V, chars, hash)
      lookup(hash) ==
        found(hash, tableFindString(V.strings, chars, hash, V.objects))
  IN lookup(hashString(chars))

takeString(V, chars) ==
  LET found(hash, interned) ==
        IF interned # NULL THEN [v |-> V, r |-> interned]
        ELSE allocateString(V, chars, hash)
      lookup(hash) ==
        found(hash, tableFindString(V.strings, chars, hash, V.objects))
  IN lookup(hashString(chars))

(* newFunction (object.c): a blank ObjFunction with an empty chunk.        *)
newFunction(V) ==
  LET objects == Append(V.objects,
                        [type |-> "OBJ_FUNCTION", arity |-> 0, name |-> NULL,
                         code |-> <<>>, constants |-> <<>>])
  IN [v |-> [V EXCEPT !.objects = objects], r |-> Len(objects)]

(* initVM: empty stack, no frames, empty tables, no objects.               *)
initVM == [frames |-> <<>>, stack |-> <<>>, globals |-> EmptyTable,
           strings |-> EmptyTable, objects |-> <<>>]

----------------------------------------------------------------------------
(* The parser (compiler.c).  W is the record of the program's globals:     *)
(* [scanner, parser, current, vm, errout, audit].  An operator that also   *)
(* returns a value returns [w |-> the globals, r |-> the value].           *)

(* errorAt without parser.hadError = true.                                 *)
errorAtUnflagged(W, token, message) ==
  LET W0 == [W EXCEPT !.audit.errCalls = @ + 1,
                      !.audit.lastType = token.type,
                      !.audit.firstError =
                         IF W.audit.errCalls = 0 THEN message ELSE @]
  IN IF W.parser.panicMode THEN W0
     ELSE [W0 EXCEPT !.parser.panicMode = TRUE,
                     !.audit.errPrints = @ + 1,
                     !.audit.statements[Len(W.audit.statements)] = @ + 1,
                     !.errout = Append(@, [type |-> token.type,
                                           lex |-> token.lex,
                                           msg |-> message])]

(* errorAt without the early return of line 71.                            *)
errorAtNoPanicCheck(W, token, message) ==
  [W EXCEPT !.audit.errCalls = @ + 1,
            !.audit.lastType = token.type,
            !.audit.firstError = IF W.audit.errCalls = 0 THEN message ELSE @,
            !.parser.panicMode = TRUE,
            !.audit.errPrints = @ + 1,
            !.audit.statements[Len(W.audit.statements)] = @ + 1,
            !.errout = Append(@, [type |-> token.type, lex |-> token.lex,
                                  msg |-> message]),
            !.parser.hadError = TRUE]

(* errorAt.  Since panicMode was last cleared, audit.errCalls counts the    *)
(* errorAt calls, audit.errPrints the messages written, audit.firstError   *)
(* keeps the message of the first call and audit.lastType the token type   *)
(* of the latest.  audit.statements holds, for each declaration() that is  *)
(* active (innermost last, below them the level of compile() itself), the  *)
(* number of messages written while it was the innermost.                  *)
errorAt(W, token, message) ==
  LET W0 == [W EXCEPT !.audit.errCalls = @ + 1,
                      !.audit.lastType = token.type,
                      !.audit.firstError =
                         IF W.audit.errCalls = 0 THEN message ELSE @]
  IN IF W.parser.panicMode THEN W0
     ELSE [W0 EXCEPT !.parser.panicMode = TRUE,
                     !.audit.errPrints = @ + 1,
                     !.audit.statements[Len(W.audit.statements)] = @ + 1,
                     !.errout = Append(@, [type |-> token.type,
                                           lex |-> token.lex,
                                           msg |-> message]),
                     !.parser.hadError = TRUE]

error(W, message) == errorAt(W, W.parser.previous, message)

errorAtCurrent(W, message) == errorAt(W, W.parser.current, message)

RECURSIVE advanceScan(_)
advanceScan(W) ==
  LET scanned(s) ==
        LET W1 == [W EXCEPT !.scanner = s.sc, !.parser.current = s.tok]
        IN IF s.tok.type # "TOKEN_ERROR" THEN W1
           ELSE advanceScan(errorAtCurrent(W1, ErrorMessage(s.tok)))
  IN scanned(scanToken(W.scanner))

advance(W) == advanceScan([W EXCEPT !.parser.previous = W.parser.current])

consume(W, type, message) ==
  IF W.parser.current.type = type THEN advance(W)
  ELSE errorAtCurrent(W, message)

check(W, type) == W.parser.current.type = type

match(W, type) ==
  IF ~check(W, type) THEN [w |-> W, r |-> FALSE]
  ELSE [w |-> advance(W), r |-> TRUE]

(* current->function, and its chunk's count.                               *)
currentFunction(W) == Last(W.current).function
currentChunk(W) == W.vm.objects[currentFunction(W)]
count(W) == Len(currentChunk(W).code)

(* emitByte(uint8_t byte).                                                 *)
emitByte(W, byte) ==
  [W EXCEPT !.vm.objects[currentFunction(W)].code = Append(@, byte % 256)]

emitBytes(W, byte1, byte2) == emitByte(emitByte(W, byte1), byte2)

(* emitLoop.  audit.loops keeps, for each OP_LOOP, its function, its       *)
(* offset and the loopStart it was emitted for.                            *)
emitLoop(W, loopStart) ==
  LET W1 == emitByte(W, Op.OP_LOOP)
      offset == count(W1) - loopStart + 2
      W2 == IF offset > UINT16_MAX THEN error(W1, "Loop body too large.")
            ELSE W1
      W3 == emitByte(emitByte(W2, (offset \div 256) % 256), offset % 256)
  IN [W3 EXCEPT !.audit.loops =
        @ \cup {<<currentFunction(W), count(W), loopStart>>}]

emitJump(W, instruction) ==
  LET W1 == emitByte(emitByte(emitByte(W, instruction), 255), 255)
  IN [w |-> W1, r |-> count(W1) - 2]

emitReturn(W) == emitByte(emitByte(W, Op.OP_NIL), Op.OP_RETURN)

(* addConstant (chunk.c): appends, and returns the index.                  *)
addConstant(W, value) ==
  [w |-> [W EXCEPT !.vm.objects[currentFunction(W)].constants = Append(@, value)],
   r |-> Len(currentChunk(W).constants)]

(* makeConstant with the limit one too high.                               *)
makeConstantOneMore(W, value) ==
  LET a == addConstant(W, value)
  IN IF a.r > UINT8_COUNT
     THEN [w |-> error(a.w, "Too many constants in one chunk."), r |-> 0]
     ELSE a

makeConstant(W, value) ==
  Once(addConstant(W, value), LAMBDA a :
    IF a.r > UINT8_MAX
    THEN [w |-> error(a.w, "Too many constants in one chunk."), r |-> 0]
    ELSE a)

emitConstant(W, value) ==
  Once(makeConstant(W, value), LAMBDA c :
    emitBytes(c.w, Op.OP_CONSTANT, c.r))

(* patchJump measuring from the operand, not from the byte after it.       *)
patchJumpFromOperand(W, offset) ==
  LET jump == count(W) - offset
      W1 == IF jump > UINT16_MAX THEN error(W, "Too much code to jump over.")
            ELSE W
  IN [W1 EXCEPT !.vm.objects[currentFunction(W)].code =
                   [@ EXCEPT ![offset + 1] = (jump \div 256) % 256,
                             ![offset + 2] = jump % 256],
                !.audit.jumps = @ \cup {<<currentFunction(W), offset, count(W)>>}]

(* patchJump writing the low byte first.                                   *)
patchJumpLowFirst(W, offset) ==
  LET jump == count(W) - offset - 2
      W1 == IF jump > UINT16_MAX THEN error(W, "Too much code to jump over.")
            ELSE W
  IN [W1 EXCEPT !.vm.objects[currentFunction(W)].code =
                   [@ EXCEPT ![offset + 1] = jump % 256,
                             ![offset + 2] = (jump \div 256) % 256],
                !.audit.jumps = @ \cup {<<currentFunction(W), offset, count(W)>>}]

(* patchJump.  audit.jumps keeps, for each call, the function, the offset  *)
(* of the operand and the count of the chunk at the call.                  *)
patchJump(W, offset) ==
  LET jump == count(W) - offset - 2
      W1 == IF jump > UINT16_MAX THEN error(W, "Too much code to jump over.")
            ELSE W
  IN [W1 EXCEPT !.vm.objects[currentFunction(W)].code =
                   [@ EXCEPT ![offset + 1] = (jump \div 256) % 256,
                             ![offset + 2] = jump % 256],
                !.audit.jumps = @ \cup {<<currentFunction(W), offset, count(W)>>}]

(* copyString, as the compiler calls it: on the VM's heap.                 *)
copyStringW(W, chars) ==
  Once(W, LAMBDA w :
    Once(chars, LAMBDA key :
      Once(copyString(w.vm, key), LAMBDA c :
        [w |-> [w EXCEPT !.vm = c.v], r |-> c.r])))

(* audit.decls: for each local, its function, the chunk offset where its   *)
(* declaration is complete, its index in locals and its name; audit.refs:  *)
(* for each OP_GET_LOCAL and OP_SET_LOCAL emitted, the function, the       *)
(* offset of the instruction and the name referred to; audit.sets: the     *)
(* same with the instruction, for each OP_SET_LOCAL and OP_SET_GLOBAL.     *)
Decl(function, offset, slot, name) ==
  [function |-> function, offset |-> offset, slot |-> slot, name |-> name]

(* initCompiler leaving current->locals empty.                             *)
initCompilerNoSlotZero(W, functionType) ==
  LET f == newFunction(W.vm)
      compiler == [function |-> f.r, functionType |-> functionType,
                   locals |-> <<>>, scopeDepth |-> 0]
      W1 == [W EXCEPT !.vm = f.v, !.current = Append(@, compiler)]
      named(n) == [n.w EXCEPT !.vm.objects[f.r].name = n.r]
  IN IF functionType # "TYPE_SCRIPT"
     THEN named(copyStringW(W1, W1.parser.previous.lex))
     ELSE W1

initCompiler(W, functionType) ==
  LET f == newFunction(W.vm)
      compiler == [function |-> f.r, functionType |-> functionType,
                   locals |-> <<[name |-> NoTok, depth |-> 0]>>,
                   scopeDepth |-> 0]
      W1 == [W EXCEPT !.vm = f.v, !.current = Append(@, compiler),
                      !.audit.decls = @ \cup {Decl(f.r, 0, 0, <<>>)}]
      named(n) == [n.w EXCEPT !.vm.objects[f.r].name = n.r]
  IN IF functionType # "TYPE_SCRIPT"
     THEN named(copyStringW(W1, W1.parser.previous.lex))
     ELSE W1

(* audit.scopes: for each scope that is open, scopeDepth and locals as     *)
(* they were at its beginScope and the number of locals addLocal has added *)
(* in it; audit.scope: the same for the scope endScope closed last, with   *)
(* scopeDepth and locals after it and the number of OP_POP it emitted.     *)
openScope(W) ==
  [W EXCEPT !.audit.scopes =
     Append(@, [depth |-> Last(W.current).scopeDepth - 1,
                locals |-> Last(W.current).locals, declared |-> 0])]

closeScope(W, W1) ==
  [W1 EXCEPT !.audit.scopes = Front(@),
             !.audit.scope =
               [closed |-> TRUE,
                depth |-> Last(W.audit.scopes).depth,
                locals |-> Last(W.audit.scopes).locals,
                declared |-> Last(W.audit.scopes).declared,
                depthAfter |-> Last(W1.current).scopeDepth,
                localsAfter |-> Last(W1.current).locals,
                pops |-> count(W1) - count(W)]]

markAdded(W) ==
  IF W.audit.scopes = <<>> THEN W
  ELSE [W EXCEPT !.audit.scopes[Len(W.audit.scopes)].declared = @ + 1]

(* endCompiler without current = current->enclosing.                      *)
endCompilerNoPop(W) ==
  LET W1 == emitReturn(W)
  IN [w |-> W1, r |-> currentFunction(W1)]

(* The function's own scope, which no endScope closes, goes with its       *)
(* Compiler.                                                               *)
endCompiler(W) ==
  LET W1 == emitReturn(W)
  IN [w |-> [W1 EXCEPT !.current = Front(@),
                       !.audit.scopes =
                         SubSeq(@, 1, Len(@) - Last(W.current).scopeDepth)],
      r |-> currentFunction(W1)]

beginScope(W) ==
  openScope([W EXCEPT !.current[Len(W.current)].scopeDepth = @ + 1])

(* The condition of endScope's while loop.                                 *)
endScopeMore(W) ==
  /\ Len(Last(W.current).locals) > 0
  /\ Last(Last(W.current).locals).depth > Last(W.current).scopeDepth

(* At most n turns of endScope's while loop, and the loop as runs of 16    *)
(* turns.                                                                  *)
RECURSIVE endScopeSome(_, _)
endScopeSome(W, n) ==
  IF n > 0 /\ endScopeMore(W)
  THEN endScopeSome([emitByte(W, Op.OP_POP)
                       EXCEPT !.current[Len(W.current)].locals = Front(@)],
                    n - 1)
  ELSE W

RECURSIVE endScopePop(_)
endScopePop(W) ==
  IF endScopeMore(W) THEN endScopePop(endScopeSome(W, 16)) ELSE W

endScope(W) ==
  Once(endScopePop([W EXCEPT !.current[Len(W.current)].scopeDepth = @ - 1]),
       LAMBDA W1 : closeScope(W, W1))

identifierConstant(W, name) ==
  Once(copyStringW(W, name.lex), LAMBDA s : makeConstant(s.w, OBJ_VAL(s.r)))

identifiersEqual(a, b) == Len(a.lex) = Len(b.lex) /\ a.lex = b.lex

(* At most n turns of resolveLocal's for loop from i down: where it       *)
(* stopped, and whether on a local of that name.                           *)
RECURSIVE resolveLocalSome(_, _, _, _)
resolveLocalSome(locals, name, i, n) ==
  IF i < 0 \/ n = 0 THEN [i |-> i, hit |-> FALSE]
  ELSE IF identifiersEqual(name, locals[i + 1].name)
  THEN [i |-> i, hit |-> TRUE]
  ELSE resolveLocalSome(locals, name, i - 1, n - 1)

(* The for loop as runs of 16 turns.                                       *)
RECURSIVE resolveLocalFrom(_, _, _)
resolveLocalFrom(W, name, i) ==
  LET go(s) ==
        IF s.hit
        THEN [w |-> IF Last(W.current).locals[s.i + 1].depth = -1
                    THEN error(W, "Cannot read local variable in its own initializer.")
                    ELSE W,
              r |-> s.i]
        ELSE IF s.i < 0 THEN [w |-> W, r |-> -1]
        ELSE resolveLocalFrom(W, name, s.i)
  IN go(resolveLocalSome(Last(W.current).locals, name, i, 16))

(* resolveLocal searching from slot 0 upwards: the outermost declaration   *)
(* of the name wins.                                                       *)
RECURSIVE resolveLocalUp(_, _, _)
resolveLocalUp(W, name, i) ==
  IF i >= Len(Last(W.current).locals) THEN [w |-> W, r |-> -1]
  ELSE IF identifiersEqual(name, Last(W.current).locals[i + 1].name)
  THEN [w |-> IF Last(W.current).locals[i + 1].depth = -1
              THEN error(W, "Cannot read local variable in its own initializer.")
              ELSE W,
        r |-> i]
  ELSE resolveLocalUp(W, name, i + 1)

resolveLocalOutermost(W, name) == resolveLocalUp(W, name, 0)

(* resolveLocal without the check of the local's depth.                    *)
resolveLocalUnchecked(W, name) ==
  [w |-> W,
   r |-> resolveLocalFrom(W, name, Len(Last(W.current).locals) - 1).r]

resolveLocal(W, name) ==
  resolveLocalFrom(W, name, Len(Last(W.current).locals) - 1)

(* addLocal without the check of line 458.                                 *)
addLocalUnchecked(W, name) ==
  [W EXCEPT !.current[Len(W.current)].locals =
               Append(@, [name |-> name, depth |-> -1])]

addLocal(W, name) ==
  IF Len(Last(W.current).locals) = UINT8_COUNT
  THEN error(W, "Too many local variables in function (max 256).")
  ELSE markAdded([W EXCEPT !.current[Len(W.current)].locals =
                              Append(@, [name |-> name, depth |-> -1])])

(* At most n turns of declareVariable's for loop from i down: the state,  *)
(* where it stopped, and whether the loop is over.                         *)
RECURSIVE declareVariableSome(_, _, _, _)
declareVariableSome(W, name, i, n) ==
  IF i < 0 THEN [w |-> W, i |-> i, done |-> TRUE]
  ELSE IF n = 0 THEN [w |-> W, i |-> i, done |-> FALSE]
  ELSE LET local == Last(W.current).locals[i + 1] IN
       IF local.depth # -1 /\ local.depth < Last(W.current).scopeDepth
       THEN [w |-> W, i |-> i, done |-> TRUE]
       ELSE declareVariableSome(
              IF identifiersEqual(name, local.name)
              THEN error(W, "Variable with this name already declared in this scope.")
              ELSE W,
              name, i - 1, n - 1)

(* The for loop as runs of 16 turns.                                       *)
RECURSIVE declareVariableFrom(_, _, _)
declareVariableFrom(W, name, i) ==
  LET go(s) == IF s.done THEN s.w ELSE declareVariableFrom(s.w, name, s.i)
  IN go(declareVariableSome(W, name, i, 16))

(* declareVariable without the search for the name in the scope.          *)
declareVariableUnchecked(W) ==
  IF Last(W.current).scopeDepth = 0 THEN W
  ELSE addLocal(W, W.parser.previous)

declareVariable(W) ==
  IF Last(W.current).scopeDepth = 0 THEN W
  ELSE addLocal(declareVariableFrom(W, W.parser.previous,
                                    Len(Last(W.current).locals) - 1),
                W.parser.previous)

parseVariable(W, errorMessage) ==
  LET declared(W1) ==
        IF Last(W1.current).scopeDepth > 0 THEN [w |-> W1, r |-> 0]
        ELSE identifierConstant(W1, W1.parser.previous)
  IN declared(declareVariable(consume(W, "TOKEN_IDENTIFIER", errorMessage)))

markInitialized(W) ==
  IF Last(W.current).scopeDepth = 0 THEN W
  ELSE [W EXCEPT !.current[Len(W.current)].locals[Len(Last(W.current).locals)].depth
                   = Last(W.current).scopeDepth]

markDeclared(W) ==
  IF Last(W.current).locals = <<>> THEN W
  ELSE [W EXCEPT !.audit.decls =
          @ \cup {Decl(currentFunction(W), count(W),
                       Len(Last(W.current).locals) - 1,
                       Last(Last(W.current).locals).name.lex)}]

markReference(W, op, name) ==
  LET W1 == IF op \in {Op.OP_GET_LOCAL, Op.OP_SET_LOCAL}
            THEN [W EXCEPT !.audit.refs =
                    @ \cup {[function |-> currentFunction(W),
                             offset |-> count(W), name |-> name.lex]}]
            ELSE W
  IN IF op \in {Op.OP_SET_LOCAL, Op.OP_SET_GLOBAL}
     THEN [W1 EXCEPT !.audit.sets =
             @ \cup {[function |-> currentFunction(W), offset |-> count(W),
                      op |-> op, name |-> name.lex]}]
     ELSE W1

defineVariable(W, index) ==
  IF Last(W.current).scopeDepth > 0 THEN markDeclared(markInitialized(W))
  ELSE emitBytes(W, Op.OP_DEFINE_GLOBAL, index)

----------------------------------------------------------------------------
(* The Pratt table (compiler.c, rules[]).                                  *)

Prec == [NONE |-> 0, ASSIGNMENT |-> 1, OR |-> 2, AND |-> 3, EQUALITY |-> 4,
         COMPARISON |-> 5, TERM |-> 6, FACTOR |-> 7, UNARY |-> 8, CALL |-> 9,
         PRIMARY |-> 10]

Rule(prefix, infix, precedence) ==
  [prefix |-> prefix, infix |-> infix, precedence |-> precedence]

rules ==
  [TOKEN_LEFT_PAREN |-> Rule("grouping", "call", Prec.CALL),
   TOKEN_RIGHT_PAREN |-> Rule("NULL", "NULL", Prec.NONE),
   TOKEN_LEFT_BRACE |-> Rule("NULL", "NULL", Prec.NONE),
   TOKEN_RIGHT_BRACE |-> Rule("NULL", "NULL", Prec.NONE),
   TOKEN_COMMA |-> Rule("NULL", "NULL", Prec.NONE),
   TOKEN_DOT |-> Rule("NULL", "NULL", Prec.NONE),
   TOKEN_MINUS |-> Rule("unary", "binary", Prec.TERM),
   TOKEN_PLUS |-> Rule("NULL", "binary", Prec.TERM),
   TOKEN_SEMICOLON |-> Rule("NULL", "NULL", Prec.NONE),
   TOKEN_SLASH |-> Rule("NULL", "binary", Prec.FACTOR),
   TOKEN_STAR |-> Rule("NULL", "binary", Prec.FACTOR),
   TOKEN_BANG |-> Rule("unary", "NULL", Prec.NONE),
   TOKEN_BANG_EQUAL |-> Rule("NULL", "binary", Prec.EQUALITY),
   TOKEN_EQUAL |-> Rule("NULL", "NULL", Prec.NONE),
   TOKEN_EQUAL_EQUAL |-> Rule("NULL", "binary", Prec.EQUALITY),
   TOKEN_GREATER |-> Rule("NULL", "binary", Prec.COMPARISON),
   TOKEN_GREATER_EQUAL |-> Rule("NULL", "binary", Prec.COMPARISON),
   TOKEN_LESS |-> Rule("NULL", "binary", Prec.COMPARISON),
   TOKEN_LESS_EQUAL |-> Rule("NULL", "binary", Prec.COMPARISON),
   TOKEN_IDENTIFIER |-> Rule("variable", "NULL", Prec.NONE),
   TOKEN_STRING |-> Rule("string", "NULL", Prec.NONE),
   TOKEN_NUMBER |-> Rule("number", "NULL", Prec.NONE),
   TOKEN_AND |-> Rule("NULL", "and_", Prec.AND),
   TOKEN_CLASS |-> Rule("NULL", "NULL", Prec.NONE),
   TOKEN_ELSE |-> Rule("NULL", "NULL", Prec.NONE),
   TOKEN_FALSE |-> Rule("literal", "NULL", Prec.NONE),
   TOKEN_FOR |-> Rule("NULL", "NULL", Prec.NONE),
   TOKEN_FUN |-> Rule("NULL", "NULL", Prec.NONE),
   TOKEN_IF |-> Rule("NULL", "NULL", Prec.NONE),
   TOKEN_NIL |-> Rule("literal", "NULL", Prec.NONE),
   TOKEN_OR |-> Rule("NULL", "or_", Prec.OR),
   TOKEN_PRINT |-> Rule("NULL", "NULL", Prec.NONE),
   TOKEN_RETURN |-> Rule("NULL", "NULL", Prec.NONE),
   TOKEN_SUPER |-> Rule("NULL", "NULL", Prec.NONE),
   TOKEN_THIS |-> Rule("NULL", "NULL", Prec.NONE),
   TOKEN_TRUE |-> Rule("literal", "NULL", Prec.NONE),
   TOKEN_VAR |-> Rule("NULL", "NULL", Prec.NONE),
   TOKEN_WHILE |-> Rule("NULL", "NULL", Prec.NONE),
   TOKEN_ERROR |-> Rule("NULL", "NULL", Prec.NONE),
   TOKEN_EOF |-> Rule("NULL", "NULL", Prec.NONE)]

getRule(operatorType) == rules[operatorType]

(* strtod on a lexeme of digits.                                           *)
RECURSIVE strtodFrom(_, _, _)
strtodFrom(lex, i, acc) ==
  IF i > Len(lex) \/ lex[i] < 48 \/ lex[i] > 57 THEN acc
  ELSE strtodFrom(lex, i + 1, acc * 10 + (lex[i] - 48))

strtod(lex) == strtodFrom(lex, 1, 0)

number(W) == emitConstant(W, NUMBER_VAL(strtod(W.parser.previous.lex)))

string(W) ==
  LET lex == W.parser.previous.lex
  IN Once(copyStringW(W, SubSeq(lex, 2, Len(lex) - 1)), LAMBDA s :
       emitConstant(s.w, OBJ_VAL(s.r)))

literal(W) ==
  CASE W.parser.previous.type = "TOKEN_FALSE" -> emitByte(W, Op.OP_FALSE)
    [] W.parser.previous.type = "TOKEN_NIL" -> emitByte(W, Op.OP_NIL)
    [] W.parser.previous.type = "TOKEN_TRUE" -> emitByte(W, Op.OP_TRUE)
    [] OTHER -> W

(* The instruction binary() and unary() emit for an operator.              *)
binaryOperator(W, operatorType) ==
  CASE operatorType = "TOKEN_BANG_EQUAL" -> emitBytes(W, Op.OP_EQUAL, Op.OP_NOT)
    [] operatorType = "TOKEN_EQUAL_EQUAL" -> emitByte(W, Op.OP_EQUAL)
    [] operatorType = "TOKEN_GREATER" -> emitByte(W, Op.OP_GREATER)
    [] operatorType = "TOKEN_GREATER_EQUAL" -> emitBytes(W, Op.OP_LESS, Op.OP_NOT)
    [] operatorType = "TOKEN_LESS" -> emitByte(W, Op.OP_LESS)
    [] operatorType = "TOKEN_LESS_EQUAL" -> emitBytes(W, Op.OP_GREATER, Op.OP_NOT)
    [] operatorType = "TOKEN_PLUS" -> emitByte(W, Op.OP_ADD)
    [] operatorType = "TOKEN_MINUS" -> emitByte(W, Op.OP_SUBTRACT)
    [] operatorType = "TOKEN_STAR" -> emitByte(W, Op.OP_MULTIPY)
    [] operatorType = "TOKEN_SLASH" -> emitByte(W, Op.OP_DIVIDE)
    [] OTHER -> W

unaryOperator(W, operatorType) ==
  CASE operatorType = "TOKEN_BANG" -> emitByte(W, Op.OP_NOT)
    [] operatorType = "TOKEN_MINUS" -> emitByte(W, Op.OP_NEGATE)
    [] OTHER -> W

----------------------------------------------------------------------------
(* The C call stack.  A frame is the label of the segment to run next, a   *)
(* token or function type the function holds (t) and its int locals (v).   *)

Frame(pc, t, v) == [pc |-> pc, t |-> t, v |-> v]
Enter(pc) == Frame(pc, "", <<>>)
Top == Last(cstack)
At(pc) == cstack # <<>> /\ Last(cstack).pc = pc

(* return; goto a later segment of the same function; call a function and  *)
(* go on at segment cont when it returns.                                  *)
Return(cs) == Front(cs)
Goto(cs, frame) == Append(Front(cs), frame)
Call(cs, cont, callee) == Append(Append(Front(cs), cont), callee)

(* expression() is parsePrecedence(PREC_ASSIGNMENT).                       *)
expression == Frame("parsePrecedence", "", <<Prec.ASSIGNMENT>>)

World == [scanner |-> scanner, parser |-> parser, current |-> current,
          vm |-> vm, errout |-> errout, audit |-> audit]

(* The steps that evaluate a loop's condition: the declaration loops of    *)
(* compile() and block(), synchronize()'s loop, the infix loop of          *)
(* parsePrecedence(), the argument loop and the parameter loop.            *)
LoopHeads == {"compile_1", "block", "synchronize_1", "parsePrecedence_1",
              "call_1", "function_1"}

NoTurn == [pc |-> "", pos |-> 0, eof |-> FALSE]

(* audit.turns: for each frame of the call stack that is in one of these   *)
(* loops, the scanner's position and whether parser.current was the EOF    *)
(* token when the loop's condition was last evaluated.  The step of the    *)
(* top frame writes its entry and drops those of the frames above.         *)
turn(A) ==
  LET depth == Len(cstack)
      below == [d \in 1..(depth - 1) |->
                  IF d <= Len(A.turns) THEN A.turns[d] ELSE NoTurn]
  IN IF cstack = <<>> THEN A
     ELSE [A EXCEPT !.turns =
             Append(below,
                    IF Top.pc \in LoopHeads
                    THEN [pc |-> Top.pc, pos |-> scanner.pos,
                          eof |-> parser.current.type = "TOKEN_EOF"]
                    ELSE NoTurn)]

SetWorld(W) ==
  /\ scanner' = W.scanner
  /\ parser' = W.parser
  /\ current' = W.current
  /\ vm' = W.vm
  /\ errout' = W.errout
  /\ audit' = turn(W.audit)

(* A step of the compiler: the globals become W and the call stack cs.     *)
Set(W, cs) ==
  /\ SetWorld(W)
  /\ cstack' = cs
  /\ UNCHANGED <<stdout, result>>

(* audit.marks: for each entry to and each return from statement(), the    *)
(* function, the chunk offset there, and localCount as it was at the       *)
(* entry.                                                                  *)
markStatement(W, localCount) ==
  [W EXCEPT !.audit.marks =
     @ \cup {<<currentFunction(W), count(W), localCount>>}]

localCount(W) == Len(Last(W.current).locals)

(* panicMode = false, as compile() and synchronize() clear it.             *)
clearPanic(W) ==
  [W EXCEPT !.parser.panicMode = FALSE,
            !.audit.errCalls = 0, !.audit.errPrints = 0,
            !.audit.firstError = ""]

----------------------------------------------------------------------------
(* compile(), declaration(), synchronize().                                *)

compile ==
  /\ At("compile")
  /\ LET W1 == initCompiler(World, "TYPE_SCRIPT")
         W2 == clearPanic([W1 EXCEPT !.parser.hadError = FALSE])
     IN Set(advance(W2), Goto(cstack, Enter("compile_1")))

(* while (!match(TOKEN_EOF)) declaration(); then endCompiler and return.   *)
compile_1 ==
  /\ At("compile_1")
  /\ \E m \in {match(World, "TOKEN_EOF")} :
     \E e \in {endCompiler(m.w)} :
        IF m.r
        THEN /\ SetWorld(e.w)
             /\ cstack' = Return(cstack)
             /\ result' = [result EXCEPT
                             !.compiled = TRUE,
                             !.function = IF e.w.parser.hadError THEN NULL
                                          ELSE e.r]
             /\ UNCHANGED stdout
        ELSE Set(m.w, Call(cstack, Enter("compile_1"), Enter("declaration")))

(* declaration() returns: its count leaves audit.statements.               *)
leaveStatement(W) ==
  [W EXCEPT !.audit.statements = Front(@)]

declaration ==
  /\ At("declaration")
  /\ \E f \in {match(World, "TOKEN_FUN")} :
     \E v \in {IF f.r THEN f ELSE match(f.w, "TOKEN_VAR")} :
       Set([v.w EXCEPT !.audit.statements = Append(@, 0)],
           Call(cstack, Enter("declaration_1"),
                Enter(IF f.r THEN "funDeclaration"
                      ELSE IF v.r THEN "varDeclaration"
                      ELSE "statement")))

declaration_1 ==
  /\ At("declaration_1")
  /\ IF parser.panicMode THEN Set(World, Goto(cstack, Enter("synchronize")))
     ELSE Set(leaveStatement(World), Return(cstack))

synchronize ==
  /\ At("synchronize")
  /\ Set(clearPanic(World), Goto(cstack, Enter("synchronize_1")))

SyncTokens == {"TOKEN_CLASS", "TOKEN_FUN", "TOKEN_VAR", "TOKEN_FOR",
               "TOKEN_IF", "TOKEN_WHILE", "TOKEN_PRINT", "TOKEN_RETURN"}

(* One turn of synchronize()'s loop.                                       *)
synchronize_1 ==
  /\ At("synchronize_1")
  /\ IF \/ parser.current.type = "TOKEN_EOF"
        \/ parser.previous.type = "TOKEN_SEMICOLON"
        \/ parser.current.type \in SyncTokens
     THEN Set(leaveStatement(World), Return(cstack))
     ELSE Set(advance(World), cstack)

----------------------------------------------------------------------------
(* Declarations.                                                           *)

funDeclaration ==
  /\ At("funDeclaration")
  /\ \E p \in {parseVariable(World, "Expect function name.")} :
       Set(markInitialized(p.w),
           Call(cstack, Frame("funDeclaration_1", "", <<p.r>>),
                Frame("function", "TYPE_FUNCTION", <<>>)))

funDeclaration_1 ==
  /\ At("funDeclaration_1")
  /\ Set(defineVariable(World, Top.v[1]), Return(cstack))

function ==
  /\ At("function")
  /\ \E W0 \in {beginScope(initCompiler(World, Top.t))} :
     \E W1 \in {consume(W0, "TOKEN_LEFT_PAREN",
                          "Expect '(' after function name.")} :
       Set(W1, Goto(cstack, Enter(IF ~check(W1, "TOKEN_RIGHT_PAREN")
                                  THEN "function_1" ELSE "function_2")))

(* One turn of the parameter loop.                                         *)
function_1 ==
  /\ At("function_1")
  /\ LET fn == currentFunction(World)
         W1 == [World EXCEPT !.vm.objects[fn].arity = @ + 1]
     IN \E W2 \in {IF W1.vm.objects[fn].arity > 255
                    THEN errorAtCurrent(W1,
                                        "Cannot have more than 255 parameters")
                    ELSE W1} :
        \E p \in {parseVariable(W2, "Expect parameter name.")} :
        \E W3 \in {defineVariable(p.w, p.r)} :
        \E m \in {match(W3, "TOKEN_COMMA")} :
          Set(m.w, Goto(cstack, Enter(IF m.r THEN "function_1"
                                      ELSE "function_2")))

function_2 ==
  /\ At("function_2")
  /\ LET W1 == consume(World, "TOKEN_RIGHT_PAREN", "Expect ')' after parameters.")
         W2 == consume(W1, "TOKEN_LEFT_BRACE", "Expect '{' before function body.")
     IN Set(W2, Call(cstack, Enter("function_3"), Enter("block")))

function_3 ==
  /\ At("function_3")
  /\ \E e \in {endCompiler(World)} :
     \E c \in {makeConstant(e.w, OBJ_VAL(e.r))} :
       Set(emitBytes(c.w, Op.OP_CONSTANT, c.r), Return(cstack))

varDeclaration ==
  /\ At("varDeclaration")
  /\ \E p \in {parseVariable(World, "Expect variable name.")} :
     \E m \in {match(p.w, "TOKEN_EQUAL")} :
       IF m.r
       THEN Set(m.w, Call(cstack, Frame("varDeclaration_1", "", <<p.r>>),
                          expression))
       ELSE Set(emitByte(m.w, Op.OP_NIL),
                Goto(cstack, Frame("varDeclaration_1", "", <<p.r>>)))

varDeclaration_1 ==
  /\ At("varDeclaration_1")
  /\ LET W1 == consume(World, "TOKEN_SEMICOLON",
                       "Expect ';' after variable declaration.")
     IN Set(defineVariable(W1, Top.v[1]), Return(cstack))

(* block() whose loop ends at '}' only.                                    *)
blockUntilBrace ==
  /\ At("block")
  /\ IF ~check(World, "TOKEN_RIGHT_BRACE")
     THEN Set(World, Call(cstack, Enter("block"), Enter("declaration")))
     ELSE Set(consume(World, "TOKEN_RIGHT_BRACE", "Expect '}' after block."),
              Return(cstack))

block ==
  /\ At("block")
  /\ IF ~check(World, "TOKEN_RIGHT_BRACE") /\ ~check(World, "TOKEN_EOF")
     THEN Set(World, Call(cstack, Enter("block"), Enter("declaration")))
     ELSE Set(consume(World, "TOKEN_RIGHT_BRACE", "Expect '}' after block."),
              Return(cstack))

----------------------------------------------------------------------------
(* Statements.                                                             *)

StatementKinds ==
  [TOKEN_PRINT |-> "printStatement", TOKEN_FOR |-> "forStatement",
   TOKEN_IF |-> "ifStatement", TOKEN_RETURN |-> "returnStatement",
   TOKEN_WHILE |-> "whileStatement", TOKEN_LEFT_BRACE |-> "block"]

(* statement(): the keyword is matched and the statement's function        *)
(* called; a block is bracketed by beginScope and endScope.                *)
statement ==
  /\ At("statement")
  /\ LET type == parser.current.type
         after == Frame("statement_1", type, <<localCount(World)>>)
     IN IF type \in DOMAIN StatementKinds
        THEN \E W1 \in {advance(markStatement(World, localCount(World)))} :
               Set(IF type = "TOKEN_LEFT_BRACE" THEN beginScope(W1) ELSE W1,
                   Call(cstack, after, Enter(StatementKinds[type])))
        ELSE Set(markStatement(World, localCount(World)),
                 Call(cstack, after, Enter("expressionStatement")))

statement_1 ==
  /\ At("statement_1")
  /\ \E W1 \in {IF Top.t = "TOKEN_LEFT_BRACE" THEN endScope(World)
                 ELSE World} :
       Set(markStatement(W1, Top.v[1]), Return(cstack))

printStatement ==
  /\ At("printStatement")
  /\ Set(World, Call(cstack, Enter("printStatement_1"), expression))

printStatement_1 ==
  /\ At("printStatement_1")
  /\ Set(emitByte(consume(World, "TOKEN_SEMICOLON",
                          "Expect ';' after expression."), Op.OP_PRINT),
         Return(cstack))

expressionStatement ==
  /\ At("expressionStatement")
  /\ Set(World, Call(cstack, Enter("expressionStatement_1"), expression))

(* expressionStatement without its OP_POP.                                 *)
expressionStatementNoPop ==
  /\ At("expressionStatement_1")
  /\ Set(consume(World, "TOKEN_SEMICOLON", "Expect ';' after expression."),
         Return(cstack))

expressionStatement_1 ==
  /\ At("expressionStatement_1")
  /\ Set(emitByte(consume(World, "TOKEN_SEMICOLON",
                          "Expect ';' after expression."), Op.OP_POP),
         Return(cstack))

(* returnStatement that takes a block of the script for a function.       *)
returnStatementOutsideBlocks ==
  /\ At("returnStatement")
  /\ \E m \in {match(IF Last(current).functionType = "TYPE_SCRIPT"
                          /\ Last(current).scopeDepth = 0
                       THEN error(World, "Cannot return from top-level code.")
                       ELSE World,
                       "TOKEN_SEMICOLON")} :
       IF m.r THEN Set(emitReturn(m.w), Return(cstack))
       ELSE Set(m.w, Call(cstack, Enter("returnStatement_1"), expression))

returnStatement ==
  /\ At("returnStatement")
  /\ \E m \in {match(IF Last(current).functionType = "TYPE_SCRIPT"
                       THEN error(World, "Cannot return from top-level code.")
                       ELSE World,
                       "TOKEN_SEMICOLON")} :
       IF m.r THEN Set(emitReturn(m.w), Return(cstack))
       ELSE Set(m.w, Call(cstack, Enter("returnStatement_1"), expression))

returnStatement_1 ==
  /\ At("returnStatement_1")
  /\ Set(emitByte(consume(World, "TOKEN_SEMICOLON",
                          "Expect ';' after return value."), Op.OP_RETURN),
         Return(cstack))

ifStatement ==
  /\ At("ifStatement")
  /\ Set(consume(World, "TOKEN_LEFT_PAREN", "Expect '(' after 'if'."),
         Call(cstack, Enter("ifStatement_1"), expression))

ifStatement_1 ==
  /\ At("ifStatement_1")
  /\ \E thenJump \in
          {emitJump(consume(World, "TOKEN_RIGHT_PAREN",
                            "Expect ')' after condition."),
                    Op.OP_JUMP_IF_FALSE)} :
       Set(emitByte(thenJump.w, Op.OP_POP),
           Call(cstack, Frame("ifStatement_2", "", <<thenJump.r>>),
                Enter("statement")))

ifStatement_2 ==
  /\ At("ifStatement_2")
  /\ \E elseJump \in {emitJump(World, Op.OP_JUMP)} :
     \E m \in {match(emitByte(patchJump(elseJump.w, Top.v[1]), Op.OP_POP),
                     "TOKEN_ELSE")} :
       IF m.r
       THEN Set(m.w, Call(cstack, Frame("ifStatement_3", "", <<elseJump.r>>),
                          Enter("statement")))
       ELSE Set(m.w, Goto(cstack, Frame("ifStatement_3", "", <<elseJump.r>>)))

ifStatement_3 ==
  /\ At("ifStatement_3")
  /\ Set(patchJump(World, Top.v[1]), Return(cstack))

whileStatement ==
  /\ At("whileStatement")
  /\ \E W1 \in {consume(World, "TOKEN_LEFT_PAREN",
                          "Expect '(' after 'while'.")} :
       Set(W1, Call(cstack, Frame("whileStatement_1", "", <<count(W1)>>),
                    expression))

whileStatement_1 ==
  /\ At("whileStatement_1")
  /\ \E exitJump \in
          {emitJump(consume(World, "TOKEN_RIGHT_PAREN",
                            "Expect ')' after condition."),
                    Op.OP_JUMP_IF_FALSE)} :
       Set(emitByte(exitJump.w, Op.OP_POP),
           Call(cstack, Frame("whileStatement_2", "", <<Top.v[1], exitJump.r>>),
                Enter("statement")))

whileStatement_2 ==
  /\ At("whileStatement_2")
  /\ \E W1 \in {emitLoop(World, Top.v[1])} :
     \E W2 \in {patchJump(W1, Top.v[2])} :
       Set(emitByte(W2, Op.OP_POP), Return(cstack))

(* forStatement: v is <<loopStart, exitJump, bodyJump, incrementStart>>.   *)
forStatement ==
  /\ At("forStatement")
  /\ \E s \in {match(consume(beginScope(World), "TOKEN_LEFT_PAREN",
                             "Expect '(' after 'for'."),
                     "TOKEN_SEMICOLON")} :
     \E v \in {match(s.w, "TOKEN_VAR")} :
       IF s.r THEN Set(s.w, Goto(cstack, Enter("forStatement_1")))
       ELSE Set(v.w, Call(cstack, Enter("forStatement_1"),
                          Enter(IF v.r THEN "varDeclaration"
                                ELSE "expressionStatement")))

forStatement_1 ==
  /\ At("forStatement_1")
  /\ \E m \in {match(World, "TOKEN_SEMICOLON")} :
     LET loopStart == count(World)
     IN IF ~m.r
        THEN Set(m.w, Call(cstack, Frame("forStatement_2", "", <<loopStart>>),
                           expression))
        ELSE Set(m.w, Goto(cstack, Frame("forStatement_3", "",
                                         <<loopStart, -1>>)))

forStatement_2 ==
  /\ At("forStatement_2")
  /\ \E exitJump \in
          {emitJump(consume(World, "TOKEN_SEMICOLON",
                            "Expect ';' after loop condition."),
                    Op.OP_JUMP_IF_FALSE)} :
       Set(emitByte(exitJump.w, Op.OP_POP),
           Goto(cstack, Frame("forStatement_3", "", <<Top.v[1], exitJump.r>>)))

forStatement_3 ==
  /\ At("forStatement_3")
  /\ \E m \in {match(World, "TOKEN_RIGHT_PAREN")} :
     \E bodyJump \in {emitJump(m.w, Op.OP_JUMP)} :
     LET incrementStart == count(bodyJump.w)
     IN IF ~m.r
        THEN Set(bodyJump.w,
                 Call(cstack, Frame("forStatement_4", "",
                                    <<Top.v[1], Top.v[2], bodyJump.r,
                                      incrementStart>>),
                      expression))
        ELSE Set(m.w, Goto(cstack, Frame("forStatement_5", "", Top.v)))

(* forStatement whose body loops back to the condition.                    *)
forStatementPastIncrement ==
  /\ At("forStatement_4")
  /\ LET W1 == consume(emitByte(World, Op.OP_POP), "TOKEN_RIGHT_PAREN",
                       "Expect ')' after for clauses.")
         W2 == patchJump(emitLoop(W1, Top.v[1]), Top.v[3])
     IN Set(W2, Goto(cstack, Frame("forStatement_5", "",
                                   <<Top.v[1], Top.v[2]>>)))

forStatement_4 ==
  /\ At("forStatement_4")
  /\ \E W1 \in {consume(emitByte(World, Op.OP_POP), "TOKEN_RIGHT_PAREN",
                          "Expect ')' after for clauses.")} :
     \E W2 \in {emitLoop(W1, Top.v[1])} :
     \E W3 \in {patchJump(W2, Top.v[3])} :
       Set(W3, Goto(cstack, Frame("forStatement_5", "",
                                   <<Top.v[4], Top.v[2]>>)))

forStatement_5 ==
  /\ At("forStatement_5")
  /\ Set(World, Call(cstack, Frame("forStatement_6", "", Top.v),
                     Enter("statement")))

forStatement_6 ==
  /\ At("forStatement_6")
  /\ \E W1 \in {emitLoop(World, Top.v[1])} :
       Set(endScope(IF Top.v[2] # -1
                    THEN emitByte(patchJump(W1, Top.v[2]), Op.OP_POP)
                    ELSE W1),
           Return(cstack))

----------------------------------------------------------------------------
(* Expressions: parsePrecedence and the parse functions of the table.      *)
(* A parse function's frame holds canAssign (1 or 0) in v[1].              *)

(* parsePrecedence(precedence) up to its infix loop.  number, string and   *)
(* literal do not recurse and run within the step.                         *)
parsePrecedence ==
  /\ At("parsePrecedence")
  /\ \E W1 \in {advance(World)} :
     \E prefixRule \in {getRule(W1.parser.previous.type).prefix} :
       LET precedence == Top.v[1]
           canAssign == IF precedence <= Prec.ASSIGNMENT THEN 1 ELSE 0
           loop == Frame("parsePrecedence_1", "", <<precedence>>)
       IN IF prefixRule = "NULL"
          THEN Set(error(W1, "Expect expression."), Return(cstack))
          ELSE IF prefixRule = "number" THEN Set(number(W1), Goto(cstack, loop))
          ELSE IF prefixRule = "string" THEN Set(string(W1), Goto(cstack, loop))
          ELSE IF prefixRule = "literal"
          THEN Set(literal(W1), Goto(cstack, loop))
          ELSE Set(W1, Call(cstack, loop, Frame(prefixRule, "", <<canAssign>>)))

(* parsePrecedence without the check for a stray '='.                      *)
parsePrecedenceNoTargetCheck ==
  /\ At("parsePrecedence_1")
  /\ LET precedence == Top.v[1]
         canAssign == precedence <= Prec.ASSIGNMENT
     IN IF precedence <= getRule(parser.current.type).precedence
        THEN \E W1 \in {advance(World)} :
               Set(W1, Call(cstack, Top,
                            Frame(getRule(W1.parser.previous.type).infix, "",
                                  <<IF canAssign THEN 1 ELSE 0>>)))
        ELSE Set(World, Return(cstack))

(* One turn of the infix loop, and after it the check for a stray '='.     *)
parsePrecedence_1 ==
  /\ At("parsePrecedence_1")
  /\ LET precedence == Top.v[1]
         canAssign == precedence <= Prec.ASSIGNMENT
     IN IF precedence <= getRule(parser.current.type).precedence
        THEN \E W1 \in {advance(World)} :
               Set(W1, Call(cstack, Top,
                            Frame(getRule(W1.parser.previous.type).infix, "",
                                  <<IF canAssign THEN 1 ELSE 0>>)))
        ELSE \E m \in {match(World, "TOKEN_EQUAL")} :
               IF canAssign /\ m.r
               THEN Set(error(m.w, "Invalid assignment target."),
                        Return(cstack))
               ELSE Set(World, Return(cstack))

grouping ==
  /\ At("grouping")
  /\ Set(World, Call(cstack, Enter("grouping_1"), expression))

grouping_1 ==
  /\ At("grouping_1")
  /\ Set(consume(World, "TOKEN_RIGHT_PAREN", "Expect ')' after expression."),
         Return(cstack))

unary ==
  /\ At("unary")
  /\ Set(World, Call(cstack, Frame("unary_1", parser.previous.type, <<>>),
                     Frame("parsePrecedence", "", <<Prec.UNARY>>)))

unary_1 ==
  /\ At("unary_1")
  /\ Set(unaryOperator(World, Top.t), Return(cstack))

(* binary whose right operand takes operators of the same precedence.     *)
binaryRightToLeft ==
  /\ At("binary")
  /\ LET operatorType == parser.previous.type
         rule == getRule(operatorType)
     IN Set(World, Call(cstack, Frame("binary_1", operatorType, <<>>),
                        Frame("parsePrecedence", "", <<rule.precedence>>)))

binary ==
  /\ At("binary")
  /\ LET operatorType == parser.previous.type
         rule == getRule(operatorType)
     IN Set(World, Call(cstack, Frame("binary_1", operatorType, <<>>),
                        Frame("parsePrecedence", "", <<rule.precedence + 1>>)))

binary_1 ==
  /\ At("binary_1")
  /\ Set(binaryOperator(World, Top.t), Return(cstack))

(* call() and its argumentList(): v[1] is argCount, a uint8_t.             *)
call ==
  /\ At("call")
  /\ IF ~check(World, "TOKEN_RIGHT_PAREN")
     THEN Set(World, Call(cstack, Frame("call_1", "", <<0>>), expression))
     ELSE Set(emitBytes(consume(World, "TOKEN_RIGHT_PAREN",
                                "Expect ')' after arguments."), Op.OP_CALL, 0),
              Return(cstack))

call_1 ==
  /\ At("call_1")
  /\ \E m \in {match(IF Top.v[1] = 255
                       THEN error(World, "Cannot have more than 255 arguments.")
                       ELSE World,
                       "TOKEN_COMMA")} :
     LET argCount == (Top.v[1] + 1) % 256
     IN IF m.r
        THEN Set(m.w, Call(cstack, Frame("call_1", "", <<argCount>>), expression))
        ELSE Set(emitBytes(consume(m.w, "TOKEN_RIGHT_PAREN",
                                   "Expect ')' after arguments."),
                           Op.OP_CALL, argCount),
                 Return(cstack))

and_ ==
  /\ At("and_")
  /\ \E endJump \in {emitJump(World, Op.OP_JUMP_IF_FALSE)} :
       Set(emitByte(endJump.w, Op.OP_POP),
           Call(cstack, Frame("and_1", "", <<endJump.r>>),
                Frame("parsePrecedence", "", <<Prec.AND>>)))

and_1 ==
  /\ At("and_1")
  /\ Set(patchJump(World, Top.v[1]), Return(cstack))

(* or_ without the OP_JUMP over the right operand.                         *)
orWithoutJump ==
  /\ At("or_")
  /\ \E elseJump \in {emitJump(World, Op.OP_JUMP_IF_FALSE)} :
       Set(emitByte(elseJump.w, Op.OP_POP),
           Call(cstack, Frame("or_1", "", <<elseJump.r>>),
                Frame("parsePrecedence", "", <<Prec.OR>>)))

or_ ==
  /\ At("or_")
  /\ \E elseJump \in {emitJump(World, Op.OP_JUMP_IF_FALSE)} :
     \E endJump \in {emitJump(elseJump.w, Op.OP_JUMP)} :
       Set(emitByte(patchJump(endJump.w, elseJump.r), Op.OP_POP),
           Call(cstack, Frame("or_1", "", <<endJump.r>>),
                Frame("parsePrecedence", "", <<Prec.OR>>)))

or_1 ==
  /\ At("or_1")
  /\ Set(patchJump(World, Top.v[1]), Return(cstack))

(* variable() is namedVariable(parser.previous, canAssign).                *)
variable ==
  /\ At("variable")
  /\ \E local \in {resolveLocal(World, parser.previous)} :
     \E arg \in {IF local.r # -1 THEN local
                 ELSE identifierConstant(local.w, parser.previous)} :
     \E m \in {match(arg.w, "TOKEN_EQUAL")} :
       LET isLocal == local.r # -1
           getOp == IF isLocal THEN Op.OP_GET_LOCAL ELSE Op.OP_GET_GLOBAL
           setOp == IF isLocal THEN Op.OP_SET_LOCAL ELSE Op.OP_SET_GLOBAL
       IN IF Top.v[1] = 1 /\ m.r
          THEN Set(m.w, Call(cstack,
                             Frame("variable_1", "",
                                   <<setOp, arg.r % 256, parser.previous>>),
                             expression))
          ELSE Set(emitBytes(markReference(arg.w, getOp, parser.previous),
                             getOp, arg.r % 256),
                   Return(cstack))

variable_1 ==
  /\ At("variable_1")
  /\ Set(emitBytes(markReference(World, Top.v[1], Top.v[3]),
                   Top.v[1], Top.v[2]),
         Return(cstack))

----------------------------------------------------------------------------
(* The VM (vm.c): interpret(), and run()'s dispatch loop, one instruction  *)
(* a step.  V is the record vm.  An operator that can end the run returns  *)
(* [v, out, halt, msg]: the VM, stdout, "" or the InterpretResult, and     *)
(* the runtime error's message.                                            *)

push(V, value) == [V EXCEPT !.stack = Append(@, value)]
pop(V) == [v |-> [V EXCEPT !.stack = Front(@)], r |-> Last(V.stack)]
peek(V, distance) == V.stack[Len(V.stack) - distance]
resetStack(V) == [V EXCEPT !.stack = <<>>, !.frames = <<>>]

isFalsy(value) == IS_NIL(value) \/ (IS_BOOL(value) /\ value.v = 0)
valuesEqual(a, b) == a.t = b.t /\ (IS_NIL(a) \/ a.v = b.v)
IS_STRING(V, value) == IS_OBJ(value) /\ V.objects[value.v].type = "OBJ_STRING"
IS_FUNCTION(V, value) ==
  IS_OBJ(value) /\ V.objects[value.v].type = "OBJ_FUNCTION"

(* What printValue writes for a value.                                     *)
printValue(V, value) ==
  IF IS_OBJ(value)
  THEN IF IS_STRING(V, value)
       THEN [t |-> "string", n |-> 0, s |-> V.objects[value.v].chars]
       ELSE [t |-> "fn", n |-> 0,
             s |-> IF V.objects[value.v].name = NULL THEN <<>>
                   ELSE V.objects[V.objects[value.v].name].chars]
  ELSE [t |-> value.t, n |-> value.v, s |-> <<>>]

Running(V, out) == [v |-> V, out |-> out, halt |-> "", msg |-> ""]
runtimeError(V, out, message) ==
  [v |-> resetStack(V), out |-> out, halt |-> "INTERPRET_RUNTIME_ERROR",
   msg |-> message]

(* call(): a new frame whose slots start at the callee.                    *)
callFunction(V, out, fn, argCount) ==
  IF argCount # V.objects[fn].arity
  THEN runtimeError(V, out, "Expected arguments.")
  ELSE IF Len(V.frames) = FRAMES_MAX
  THEN runtimeError(V, out, "Stack overflow.")
  ELSE Running([V EXCEPT !.frames =
                  Append(@, [function |-> fn, ip |-> 0,
                             slots |-> Len(V.stack) - argCount - 1])], out)

callValue(V, out, callee, argCount) ==
  IF IS_FUNCTION(V, callee) THEN callFunction(V, out, callee.v, argCount)
  ELSE runtimeError(V, out, "Can only call functions and classes.")

(* The arithmetic of BINARY_OP on two numbers.                             *)
arith(op, a, b) ==
  CASE op = Op.OP_ADD -> NUMBER_VAL(a + b)
    [] op = Op.OP_SUBTRACT -> NUMBER_VAL(a - b)
    [] op = Op.OP_MULTIPY -> NUMBER_VAL(a * b)
    [] op = Op.OP_DIVIDE -> NUMBER_VAL(a \div b)
    [] op = Op.OP_GREATER -> BOOL_VAL(a > b)
    [] op = Op.OP_LESS -> BOOL_VAL(a < b)

binaryOp(V, out, op) ==
  IF ~IS_NUMBER(peek(V, 0)) \/ ~IS_NUMBER(peek(V, 1))
  THEN runtimeError(V, out, "Operands must be numbers.")
  ELSE LET b == pop(V)
           a == pop(b.v)
       IN Running(push(a.v, arith(op, a.r.v, b.r.v)), out)

concatenate(V, out) ==
  LET b == pop(V)
      a == pop(b.v)
      taken(s) == Running(push(s.v, OBJ_VAL(s.r)), out)
  IN taken(takeString(a.v, V.objects[a.r.v].chars \o V.objects[b.r.v].chars))

(* The frame's function and the bytes at its ip.                           *)
frameOf(V) == Last(V.frames)
codeOf(V) == V.objects[frameOf(V).function].code
byteAt(V, n) == codeOf(V)[frameOf(V).ip + n + 1]
shortAt(V) == byteAt(V, 1) * 256 + byteAt(V, 2)
constantAt(V) == V.objects[frameOf(V).function].constants[byteAt(V, 1) + 1]

(* One turn of run(): execute reads the instruction at ip, and            *)
(* runInstruction carries out op on V0, the VM with ip past the instruction   *)
(* and its operand.                                                        *)
runInstruction(V, V0, out, op) ==
  LET frame == frameOf(V)
      nf == Len(V.frames)
  IN
  CASE op = Op.OP_CONSTANT -> Running(push(V0, constantAt(V)), out)
    [] op = Op.OP_NIL -> Running(push(V0, NIL_VAL), out)
    [] op = Op.OP_TRUE -> Running(push(V0, BOOL_VAL(TRUE)), out)
    [] op = Op.OP_FALSE -> Running(push(V0, BOOL_VAL(FALSE)), out)
    [] op = Op.OP_POP -> Running(pop(V0).v, out)
    [] op = Op.OP_GET_LOCAL ->
         Running(push(V0, V0.stack[frame.slots + byteAt(V, 1) + 1]), out)
    [] op = Op.OP_SET_LOCAL ->
         Running([V0 EXCEPT !.stack[frame.slots + byteAt(V, 1) + 1] =
                   peek(V0, 0)], out)
    [] op = Op.OP_GET_GLOBAL ->
         LET g == tableGet(V0.globals, constantAt(V).v, V0.objects)
         IN IF ~g.found THEN runtimeError(V0, out, "Undefined variable.")
            ELSE Running(push(V0, g.r), out)
    [] op = Op.OP_DEFINE_GLOBAL ->
         LET g == tableSet(V0.globals, constantAt(V).v, peek(V0, 0), V0.objects)
         IN Running(pop([V0 EXCEPT !.globals = g.t]).v, out)
    [] op = Op.OP_SET_GLOBAL ->
         LET g == tableSet(V0.globals, constantAt(V).v, peek(V0, 0), V0.objects)
         IN IF g.r
            THEN runtimeError(
                   [V0 EXCEPT !.globals =
                      tableDelete(g.t, constantAt(V).v, V0.objects)],
                   out, "Undefined variable.")
            ELSE Running([V0 EXCEPT !.globals = g.t], out)
    [] op = Op.OP_EQUAL ->
         LET b == pop(V0)
             a == pop(b.v)
         IN Running(push(a.v, BOOL_VAL(valuesEqual(a.r, b.r))), out)
    [] op \in {Op.OP_GREATER, Op.OP_LESS, Op.OP_SUBTRACT, Op.OP_MULTIPY, Op.OP_DIVIDE} ->
         binaryOp(V0, out, op)
    [] op = Op.OP_ADD ->
         IF IS_STRING(V0, peek(V0, 0)) /\ IS_STRING(V0, peek(V0, 1))
         THEN concatenate(V0, out)
         ELSE IF IS_NUMBER(peek(V0, 0)) /\ IS_NUMBER(peek(V0, 1))
         THEN binaryOp(V0, out, op)
         ELSE runtimeError(V0, out,
                           "Operands must be two numbers or two strings.")
    [] op = Op.OP_NOT ->
         LET a == pop(V0) IN Running(push(a.v, BOOL_VAL(isFalsy(a.r))), out)
    [] op = Op.OP_NEGATE ->
         IF ~IS_NUMBER(peek(V0, 0))
         THEN runtimeError(V0, out, "Operand must be a number.")
         ELSE LET a == pop(V0) IN Running(push(a.v, NUMBER_VAL(-a.r.v)), out)
    [] op = Op.OP_PRINT ->
         LET a == pop(V0) IN Running(a.v, Append(out, printValue(V0, a.r)))
    [] op = Op.OP_JUMP ->
         Running([V0 EXCEPT !.frames[nf].ip = @ + shortAt(V)], out)
    [] op = Op.OP_JUMP_IF_FALSE ->
         Running(IF isFalsy(peek(V0, 0))
                 THEN [V0 EXCEPT !.frames[nf].ip = @ + shortAt(V)] ELSE V0, out)
    [] op = Op.OP_LOOP ->
         Running([V0 EXCEPT !.frames[nf].ip = @ - shortAt(V)], out)
    [] op = Op.OP_CALL ->
         callValue(V0, out, peek(V0, byteAt(V, 1)), byteAt(V, 1))
    [] op = Op.OP_RETURN ->
         LET r == pop(V0)
             V1 == [r.v EXCEPT !.frames = Front(@)]
         IN IF Len(V1.frames) = 0
            THEN [v |-> pop(V1).v, out |-> out, halt |-> "INTERPRET_OK",
                  msg |-> ""]
            ELSE Running(push([V1 EXCEPT !.stack =
                                 SubSeq(@, 1, frame.slots)], r.r), out)

execute(V, out) ==
  runInstruction(V, [V EXCEPT !.frames[Len(V.frames)].ip =
                                @ + 1 + OperandBytes(byteAt(V, 0))],
                 out, byteAt(V, 0))

(* What the model's integers can follow: a quotient that is whole.         *)
Modelled(V) ==
  IF byteAt(V, 0) = Op.OP_DIVIDE /\ Len(V.stack) >= 2
     /\ IS_NUMBER(peek(V, 0)) /\ IS_NUMBER(peek(V, 1))
  THEN peek(V, 0).v # 0 /\ peek(V, 1).v % peek(V, 0).v = 0
  ELSE TRUE

(* audit.owner: for each value on the stack, the declaration whose         *)
(* completion the run has passed while the value lay in that              *)
(* declaration's slot, NoOwner for any other value.  An instruction keeps  *)
(* the owners below the height it pops down to.                            *)
NoOwner == Decl(NULL, 0, 0, <<>>)

Pops(V, op) ==
  CASE op \in {Op.OP_POP, Op.OP_PRINT, Op.OP_DEFINE_GLOBAL, Op.OP_NOT,
               Op.OP_NEGATE} -> 1
    [] op \in {Op.OP_EQUAL, Op.OP_GREATER, Op.OP_LESS, Op.OP_ADD,
               Op.OP_SUBTRACT, Op.OP_MULTIPY, Op.OP_DIVIDE} -> 2
    [] op = Op.OP_RETURN -> Len(V.stack) - frameOf(V).slots
    [] OTHER -> 0

DeclsAt(decls, V) ==
  {d \in decls : d.function = frameOf(V).function /\ d.offset = frameOf(V).ip}

owners(decls, owner, V, kept) ==
  [i \in 1..Len(V.stack) |->
     LET here == IF V.frames = <<>> THEN {}
                 ELSE {d \in DeclsAt(decls, V) :
                         frameOf(V).slots + d.slot + 1 = i}
     IN IF here # {} THEN CHOOSE d \in here : TRUE
        ELSE IF i <= kept /\ i <= Len(owner) THEN owner[i]
        ELSE NoOwner]

interpret ==
  /\ At("interpret")
  /\ Set(World, Call(cstack, Enter("interpret_1"), Enter("compile")))

(* After compile(): COMPILE_ERROR, or the script is pushed and called.     *)
interpret_1 ==
  /\ At("interpret_1")
  /\ UNCHANGED <<scanner, parser, current, errout, stdout>>
  /\ IF result.function = NULL
     THEN /\ result' = [result EXCEPT !.interpret = "INTERPRET_COMPILE_ERROR"]
          /\ cstack' = Return(cstack)
          /\ vm' = vm
     ELSE /\ vm' = callValue(push(vm, OBJ_VAL(result.function)), stdout,
                             OBJ_VAL(result.function), 0).v
          /\ cstack' = Goto(cstack, Enter("run"))
          /\ result' = result
  /\ audit' = [audit EXCEPT !.owner = owners(audit.decls, @, vm', 0)]

run ==
  /\ At("run")
  /\ Modelled(vm)
  /\ \E x \in {execute(vm, stdout)} :
        /\ vm' = x.v
        /\ stdout' = x.out
        /\ errout' = IF x.halt = "INTERPRET_RUNTIME_ERROR"
                     THEN Append(errout, [type |-> "runtime", lex |-> <<>>,
                                          msg |-> x.msg])
                     ELSE errout
        /\ result' = [result EXCEPT !.interpret = x.halt]
        /\ cstack' = IF x.halt = "" THEN cstack ELSE Return(cstack)
        /\ audit' = [audit EXCEPT !.owner =
                       owners(audit.decls, @, x.v,
                              Len(vm.stack) - Pops(vm, byteAt(vm, 0)))]
        /\ UNCHANGED <<scanner, parser, current>>

----------------------------------------------------------------------------
(* The sources.  The scanner (scanner.c) is modelled by its result: a      *)
(* source is written as its lexemes, and TokenOf gives each lexeme's       *)
(* token.  A string literal is written with ' for its quotes; "@" is an    *)
(* unexpected character and "'" alone an unterminated string, both         *)
(* TOKEN_ERROR.                                                            *)

TokenOf ==
  "(" :> Tok("TOKEN_LEFT_PAREN", <<40>>)
  @@ ")" :> Tok("TOKEN_RIGHT_PAREN", <<41>>)
  @@ "{" :> Tok("TOKEN_LEFT_BRACE", <<123>>)
  @@ "}" :> Tok("TOKEN_RIGHT_BRACE", <<125>>)
  @@ "," :> Tok("TOKEN_COMMA", <<44>>)
  @@ "." :> Tok("TOKEN_DOT", <<46>>)
  @@ "-" :> Tok("TOKEN_MINUS", <<45>>)
  @@ "+" :> Tok("TOKEN_PLUS", <<43>>)
  @@ ";" :> Tok("TOKEN_SEMICOLON", <<59>>)
  @@ "/" :> Tok("TOKEN_SLASH", <<47>>)
  @@ "*" :> Tok("TOKEN_STAR", <<42>>)
  @@ "!" :> Tok("TOKEN_BANG", <<33>>)
  @@ "!=" :> Tok("TOKEN_BANG_EQUAL", <<33, 61>>)
  @@ "=" :> Tok("TOKEN_EQUAL", <<61>>)
  @@ "==" :> Tok("TOKEN_EQUAL_EQUAL", <<61, 61>>)
  @@ ">" :> Tok("TOKEN_GREATER", <<62>>)
  @@ ">=" :> Tok("TOKEN_GREATER_EQUAL", <<62, 61>>)
  @@ "<" :> Tok("TOKEN_LESS", <<60>>)
  @@ "<=" :> Tok("TOKEN_LESS_EQUAL", <<60, 61>>)
  @@ "and" :> Tok("TOKEN_AND", <<97, 110, 100>>)
  @@ "class" :> Tok("TOKEN_CLASS", <<99, 108, 97, 115, 115>>)
  @@ "else" :> Tok("TOKEN_ELSE", <<101, 108, 115, 101>>)
  @@ "false" :> Tok("TOKEN_FALSE", <<102, 97, 108, 115, 101>>)
  @@ "for" :> Tok("TOKEN_FOR", <<102, 111, 114>>)
  @@ "fun" :> Tok("TOKEN_FUN", <<102, 117, 110>>)
  @@ "if" :> Tok("TOKEN_IF", <<105, 102>>)
  @@ "nil" :> Tok("TOKEN_NIL", <<110, 105, 108>>)
  @@ "or" :> Tok("TOKEN_OR", <<111, 114>>)
  @@ "print" :> Tok("TOKEN_PRINT", <<112, 114, 105, 110, 116>>)
  @@ "return" :> Tok("TOKEN_RETURN", <<114, 101, 116, 117, 114, 110>>)
  @@ "super" :> Tok("TOKEN_SUPER", <<115, 117, 112, 101, 114>>)
  @@ "this" :> Tok("TOKEN_THIS", <<116, 104, 105, 115>>)
  @@ "true" :> Tok("TOKEN_TRUE", <<116, 114, 117, 101>>)
  @@ "var" :> Tok("TOKEN_VAR", <<118, 97, 114>>)
  @@ "while" :> Tok("TOKEN_WHILE", <<119, 104, 105, 108, 101>>)
  @@ "a" :> Tok("TOKEN_IDENTIFIER", <<97>>)
  @@ "b" :> Tok("TOKEN_IDENTIFIER", <<98>>)
  @@ "f" :> Tok("TOKEN_IDENTIFIER", <<102>>)
  @@ "g" :> Tok("TOKEN_IDENTIFIER", <<103>>)
  @@ "i" :> Tok("TOKEN_IDENTIFIER", <<105>>)
  @@ "n" :> Tok("TOKEN_IDENTIFIER", <<110>>)
  @@ "x" :> Tok("TOKEN_IDENTIFIER", <<120>>)
  @@ "y" :> Tok("TOKEN_IDENTIFIER", <<121>>)
  @@ "0" :> Tok("TOKEN_NUMBER", <<48>>)
  @@ "1" :> Tok("TOKEN_NUMBER", <<49>>)
  @@ "2" :> Tok("TOKEN_NUMBER", <<50>>)
  @@ "3" :> Tok("TOKEN_NUMBER", <<51>>)
  @@ "10" :> Tok("TOKEN_NUMBER", <<49, 48>>)
  @@ "'a'" :> Tok("TOKEN_STRING", <<34, 97, 34>>)
  @@ "'b'" :> Tok("TOKEN_STRING", <<34, 98, 34>>)
  @@ "'ab'" :> Tok("TOKEN_STRING", <<34, 97, 98, 34>>)
  @@ "@" :> Tok("TOKEN_ERROR", <<64>>)
  @@ "'" :> Tok("TOKEN_ERROR", <<34>>)

Scan(words) == [i \in 1..Len(words) |-> TokenOf[words[i]]]

(* The identifier v<n>, n written with three digits.                       *)
Ident(n) ==
  Tok("TOKEN_IDENTIFIER",
      <<118, 48 + (n \div 100), 48 + ((n \div 10) % 10), 48 + (n % 10)>>)

Repeat(tokens, n) ==
  [i \in 1..(n * Len(tokens)) |-> tokens[((i - 1) % Len(tokens)) + 1]]

(* var v<from>; ... var v<to>;                                             *)
VarDecls(from, to) ==
  [i \in 1..(3 * (to - from + 1)) |->
     CASE (i - 1) % 3 = 0 -> Tok("TOKEN_VAR", <<118, 97, 114>>)
       [] (i - 1) % 3 = 1 -> Ident(from + ((i - 1) \div 3))
       [] OTHER -> Tok("TOKEN_SEMICOLON", <<59>>)]

(* Sources that compile and run: every statement and expression kind. *)
Statements ==
  { Scan(words) : words \in {
    <<"print", "1", "+", "2", "*", "3", ";">>,
    <<"print", "1", "-", "2", "-", "3", ";">>,
    <<"print", "-", "(", "1", "+", "2", ")", ";", "print", "!", "true",
           ";", "print", "!", "nil", ";">>,
    <<"print", "nil", "and", "1", ";", "print", "1", "and", "2", ";",
           "print", "1", "or", "2", ";", "print", "false", "or", "2", ";">>,
    <<"print", "1", "<", "2", ";", "print", "2", "<=", "1", ";",
           "print", "1", ">", "2", ";", "print", "1", ">=", "2", ";",
           "print", "1", "==", "1", ";", "print", "1", "!=", "1", ";",
           "print", "2", "/", "1", ";">>,
    <<"var", "a", "=", "'a'", ";", "var", "b", "=", "'a'", ";", "print",
           "a", "==", "b", ";", "print", "'a'", "+", "'b'", "==", "'ab'",
           ";", "print", "'a'", "+", "'b'", ";">>,
    <<"var", "x", ";", "print", "x", ";", "x", "=", "1", ";", "print",
           "x", ";">>,
    <<"if", "(", "true", ")", "print", "1", ";", "else", "print", "2",
           ";">>,
    <<"if", "(", "nil", ")", "print", "1", ";", "else", "print", "2",
           ";", "print", "3", ";">>,
    <<"if", "(", "false", ")", "print", "1", ";", "print", "2", ";">>,
    <<"var", "i", "=", "0", ";", "while", "(", "i", "<", "2", ")", "{",
           "print", "i", ";", "i", "=", "i", "+", "1", ";", "}", "print",
           "i", ";">>,
    <<"{", "var", "i", "=", "2", ";", "while", "(", "i", ">", "0", ")",
           "i", "=", "i", "-", "1", ";", "print", "i", ";", "}">>,
    <<"for", "(", "var", "i", "=", "0", ";", "i", "<", "3", ";", "i",
           "=", "i", "+", "1", ")", "print", "i", ";">>,
    <<"var", "i", "=", "0", ";", "for", "(", ";", "i", "<", "2", ";",
           ")", "i", "=", "i", "+", "1", ";", "print", "i", ";">>,
    <<"var", "i", ";", "for", "(", "i", "=", "0", ";", "i", "<", "2",
           ";", "i", "=", "i", "+", "1", ")", "{", "var", "a", "=", "i", ";",
           "print", "a", ";", "}">>,
    <<"{", "var", "a", "=", "1", ";", "{", "var", "b", "=", "a", "and",
           "2", ";", "print", "b", ";", "}", "var", "b", "=", "3", ";",
           "print", "a", "+", "b", ";", "}">>,
    <<"{", "var", "a", "=", "1", ";", "if", "(", "a", ")", "{", "var",
           "b", "=", "2", ";", "print", "b", ";", "}", "else", "{", "var",
           "y", "=", "3", ";", "}", "print", "a", ";", "}">>,
    <<"{", "}", "{", "{", "}", "}", ";">> } }

(* Sources with functions: parameters, returns, recursion, locals. *)
Functions ==
  { Scan(words) : words \in {
    <<"fun", "f", "(", "a", ",", "b", ")", "{", "return", "a", "+", "b",
           ";", "}", "print", "f", "(", "1", ",", "2", ")", ";", "print",
           "f", ";">>,
    <<"fun", "f", "(", "n", ")", "{", "if", "(", "n", "<", "1", ")",
           "return", "n", ";", "return", "f", "(", "n", "-", "1", ")", ";",
           "}", "print", "f", "(", "2", ")", ";">>,
    <<"fun", "f", "(", ")", "{", "for", "(", ";", ";", ")", "return",
           ";", "}", "print", "f", "(", ")", ";">>,
    <<"fun", "f", "(", ")", "{", "for", "(", ";", ";", ")", "{", "}",
           "}", "f", "(", ")", ";">>,
    <<"{", "fun", "g", "(", ")", "{", "var", "x", "=", "1", ";", "{",
           "var", "y", "=", "2", ";", "return", "x", "+", "y", ";", "}", "}",
           "print", "g", "(", ")", ";", "}">>,
    <<"fun", "f", "(", "n", ")", "{", "var", "a", "=", "n", ";",
           "while", "(", "a", "<", "2", ")", "{", "a", "=", "a", "+", "1",
           ";", "if", "(", "a", "==", "1", ")", "print", "a", ";", "}",
           "return", "a", ";", "}", "print", "f", "(", "0", ")", ";">>,
    <<"fun", "f", "(", ")", "{", "f", "(", ")", ";", "}", "f", "(", ")",
           ";">> } }

(* A function that calls itself, declared at the top level, in a block or *)
(* in another function.                                                    *)
RecursionKinds == {"global", "block", "function"}
Countdown ==
  <<"fun", "f", "(", "n", ")", "{", "if", "(", "n", "<", "1", ")",
    "return", "n", ";", "return", "f", "(", "n", "-", "1", ")", ";", "}">>
Recursive(kind) ==
  CASE kind = "global" ->
         Scan(Countdown \o <<"print", "f", "(", "1", ")", ";">>)
    [] kind = "block" ->
         Scan(<<"{">> \o Countdown
                \o <<"print", "f", "(", "1", ")", ";", "}">>)
    [] kind = "function" ->
         Scan(<<"fun", "g", "(", ")", "{">> \o Countdown
                \o <<"return", "f", "(", "1", ")", ";", "}",
                     "print", "g", "(", ")", ";">>)
Recursions == {Recursive(kind) : kind \in RecursionKinds}

(* print a op1 b op2 c; for every pair of binary operators, one or two of  *)
(* each precedence level, and two triples of operands.                     *)
InfixOps == {"*", "+", "-", "<", ">", "==", "!=", "and", "or"}
Operands == {<<"1", "2", "3">>, <<"2", "3", "2">>}
Infix(op1, op2, abc) ==
  Scan(<<"print", abc[1], op1, abc[2], op2, abc[3], ";">>)
Infixes ==
  {Infix(op1, op2, abc) : op1 \in InfixOps, op2 \in InfixOps,
                          abc \in Operands}

(* var a; var b; left = 1; print a; at the top level or in a block, for    *)
(* left sides that are assignment targets and left sides that are not.     *)
AssignKinds == {"global", "local"}
Targets == {<<"a">>, <<"b", "=", "a">>}
NonTargets ==
  {<<"a", "+", "b">>, <<"a", "*", "b">>, <<"1">>, <<"(", "a", ")">>,
   <<"-", "a">>, <<"!", "a">>, <<"a", "and", "b">>, <<"a", "or", "b">>,
   <<"a", "==", "b">>, <<"a", "<", "b">>, <<"nil">>, <<"'a'">>}
AssignWords(left) ==
  <<"var", "a", ";", "var", "b", ";">> \o left
    \o <<"=", "1", ";", "print", "a", ";">>
Assign(kind, left) ==
  Scan(IF kind = "global" THEN AssignWords(left)
       ELSE <<"{">> \o AssignWords(left) \o <<"}">>)
Assigns ==
  {Assign(kind, left) : kind \in AssignKinds, left \in Targets \cup NonTargets}

(* return, with and without a value, at the top level and in a function,   *)
(* under depth blocks.                                                     *)
ReturnPlaces == {"script", "function"}
ReturnValues == {<<>>, <<"1">>}
MaxDepth == 2
RECURSIVE Braced(_, _)
Braced(words, depth) ==
  IF depth = 0 THEN words
  ELSE Braced(<<"{">> \o words \o <<"}">>, depth - 1)
Returning(place, value, depth) ==
  LET words == Braced(<<"return">> \o value \o <<";">>, depth)
  IN Scan(IF place = "script" THEN words \o <<"print", "2", ";">>
          ELSE <<"fun", "f", "(", ")", "{">> \o words
                 \o <<"}", "print", "f", "(", ")", ";">>)
Returns ==
  {Returning(place, value, depth) :
     place \in ReturnPlaces, value \in ReturnValues, depth \in 0..MaxDepth}

(* for loops whose clauses show when they run: the initializer f() prints *)
(* 0, the condition g() prints 1 and is true twice, the increment a()      *)
(* prints 2, the body prints 3.  Without a condition the loop is in a      *)
(* function x and its body returns in the second iteration.                *)
ForKinds == {"full", "noInit", "noIncr", "noCond"}
ForPrelude ==
  <<"var", "n", "=", "0", ";",
    "fun", "f", "(", ")", "{", "print", "0", ";", "}",
    "fun", "g", "(", ")", "{", "print", "1", ";", "n", "=", "n", "+", "1",
           ";", "return", "n", "<", "3", ";", "}",
    "fun", "a", "(", ")", "{", "print", "2", ";", "}">>
ForLoop(kind) ==
  CASE kind = "full" ->
         <<"for", "(", "f", "(", ")", ";", "g", "(", ")", ";", "a", "(", ")",
           ")", "print", "3", ";">>
    [] kind = "noInit" ->
         <<"for", "(", ";", "g", "(", ")", ";", "a", "(", ")", ")", "print",
           "3", ";">>
    [] kind = "noIncr" ->
         <<"for", "(", "f", "(", ")", ";", "g", "(", ")", ";", ")", "print",
           "3", ";">>
    [] kind = "noCond" ->
         <<"fun", "x", "(", ")", "{",
           "for", "(", "f", "(", ")", ";", ";", "a", "(", ")", ")", "{",
           "print", "3", ";", "n", "=", "n", "+", "1", ";",
           "if", "(", "n", ">", "1", ")", "return", ";", "}",
           "}", "x", "(", ")", ";">>
For(kind) == Scan(ForPrelude \o ForLoop(kind))
Fors == {For(kind) : kind \in ForKinds}

(* a and b, a or b, with a right operand whose execution shows: it        *)
(* assigns 2 to x, which is 1 before; x is a global or a local.            *)
ShortOps == {"and", "or"}
ShortValues == {"nil", "false", "true", "0", "1"}
ShortKinds == {"global", "local"}
ShortWords(op, a) ==
  <<"var", "x", "=", "1", ";", "print", a, op, "(", "x", "=", "2", ")", ";",
    "print", "x", ";">>
Short(kind, op, a) ==
  Scan(IF kind = "global" THEN ShortWords(op, a)
       ELSE <<"{">> \o ShortWords(op, a) \o <<"}">>)
Shorts ==
  {Short(kind, op, a) : kind \in ShortKinds, op \in ShortOps,
                        a \in ShortValues}

(* Sources with compile errors and with runtime errors. *)
Faulty ==
  { Scan(words) : words \in {
    <<"{", "var", "a", "=", "a", ";", "}">>,
    <<"var", "a", "=", "1", ";", "{", "var", "a", "=", "a", ";", "}">>,
    <<"{", "var", "a", "=", "1", ";", "{", "var", "a", "=", "a", ";", "}",
           "}">>,
    <<"{", "var", "a", "=", "@", "a", ";", "}">>,
    <<"{", "var", "a", ";", "var", "a", ";", "}">>,
    <<"{", "var", "a", ";", "{", "var", "a", ";", "}", "}">>,
    <<"fun", "f", "(", "a", ",", "a", ")", "{", "}">>,
    <<"fun", "f", "(", "a", ")", "{", "var", "a", ";", "}">>,
    <<"{", "var", "a", ";", "fun", "f", "(", "a", ")", "{", "var", "a",
           ";", "+", ";", "}", "print", "a", ";", "}">>,
    <<"return", "1", ";">>,
    <<"{", "return", ";", "}">>,
    <<"a", "+", "b", "=", "1", ";">>,
    <<"a", "*", "b", "=", "1", ";">>,
    <<"1", "=", "2", ";">>,
    <<"var", "a", ";", "a", "=", "1", ";", "(", "a", ")", "=", "2", ";">>,
    <<"+", "x", "@", ";", "print", "1", ";">>,
    <<"var", "=", "@", "1", ";", "print", ";">>,
    <<"print", "(", "1", ";", "print", "2", ";", "print", ")", ";">>,
    <<"if", "(", "+", ";", ")", "x", ";", "print", "1", ";">>,
    <<"{", "+", ";", "+", ";", "}", "1", ";">>,
    <<"{", "+", ";">>,
    <<"fun", "f", "(", ",", ",", ")", "{", "1", "}">>,
    <<"f", "(", "1", ",", ",", ";">>,
    <<"while", "(", "x", "x", ";", "for", "(", "x", "x", ";", "x", ")",
           ";">>,
    <<"'", ";", "print", "1", ";">>,
    <<"print", "x", ";">>,
    <<"x", "=", "1", ";">>,
    <<"print", "1", "+", "'a'", ";">>,
    <<"print", "-", "'a'", ";">>,
    <<"print", "1", "<", "nil", ";">>,
    <<"1", "(", ")", ";">>,
    <<"fun", "f", "(", "a", ")", "{", "}", "f", "(", ")", ";">>,
    <<"var", "f", "=", "'a'", ";", "f", "(", "1", ")", ";">> } }

(* Lexical shadowing: x is declared with value a outside a block and with  *)
(* value b inside it, and printed inside and after.  The outer x is a      *)
(* global ("global"), a local ("local"), or read through one more block    *)
(* ("nested"); with "assign" the inner x is assigned 3 before the print.   *)
ShadowKinds == {"global", "local", "nested", "assign"}
ShadowValues == {"1", "2"}

ShadowWords(kind, a, b) ==
  LET outer == <<"var", "x", "=", a, ";">>
      inner == <<"var", "x", "=", b, ";">>
      show == <<"print", "x", ";">>
  IN CASE kind = "global" ->
            outer \o <<"{">> \o inner \o show \o <<"}">> \o show
       [] kind = "local" ->
            <<"{">> \o outer \o <<"{">> \o inner \o show \o <<"}">> \o show
              \o <<"}">>
       [] kind = "nested" ->
            <<"{">> \o outer \o <<"{">> \o inner \o <<"{">> \o show
              \o <<"}", "}">> \o show \o <<"}">>
       [] kind = "assign" ->
            outer \o <<"{">> \o inner \o <<"x", "=", "3", ";">> \o show
              \o <<"}">> \o show

Shadow(kind, a, b) == Scan(ShadowWords(kind, a, b))

Shadows ==
  {Shadow(kind, a, b) : kind \in ShadowKinds, a \in ShadowValues,
                        b \in ShadowValues}

(* The limits: n constants in the script's chunk, from number literals     *)
(* ("1;" n times) or from global names ("x;" n times); n locals declared   *)
(* in one block.                                                           *)
NumberConstants(n) ==
  Repeat(<<Tok("TOKEN_NUMBER", <<49>>), Tok("TOKEN_SEMICOLON", <<59>>)>>, n)
NameConstants(n) ==
  Repeat(<<Tok("TOKEN_IDENTIFIER", <<120>>), Tok("TOKEN_SEMICOLON", <<59>>)>>, n)
Locals(n) ==
  <<Tok("TOKEN_LEFT_BRACE", <<123>>)>> \o VarDecls(1, n)
    \o <<Tok("TOKEN_RIGHT_BRACE", <<125>>)>>

(* n locals in a block, and one more declared in a block inside it.        *)
LocalsAndInner(n) ==
  <<Tok("TOKEN_LEFT_BRACE", <<123>>)>> \o VarDecls(1, n)
    \o Scan(<<"{", "var", "x", ";", "}", "}">>)

(* The same, and then the last of the n declared again in the inner block. *)
LocalsAndInnerAgain(n) ==
  <<Tok("TOKEN_LEFT_BRACE", <<123>>)>> \o VarDecls(1, n)
    \o Scan(<<"{", "var", "x", ";">>) \o VarDecls(n, n)
    \o Scan(<<"}", "}">>)

AtLimits ==
  { NumberConstants(UINT8_COUNT), NumberConstants(UINT8_COUNT + 1),
    NameConstants(UINT8_COUNT + 1),
    Locals(UINT8_COUNT - 1), Locals(UINT8_COUNT),
    LocalsAndInner(UINT8_COUNT - 1), LocalsAndInnerAgain(UINT8_COUNT - 1) }

(* A program with every kind of statement, cut off after each of its       *)
(* tokens, and with each of its tokens replaced by a ')'.                  *)
Whole ==
  <<"fun", "f", "(", "a", ",", "b", ")", "{",
      "for", "(", ";", "a", "<", "b", ";", "a", "=", "a", "+", "1", ")", "{",
        "if", "(", "a", ")", "print", "f", "(", "b", ",", "b", ")", ";",
        "else", "while", "(", "!", "b", ")", "return", ";",
        "var", "x", "=", "(", "a", "and", "b", ")", "or", "'a'", ";",
      "}",
    "}",
    "f", "(", "1", ",", "2", ")", ";">>
CutOff == {Scan(SubSeq(Whole, 1, n)) : n \in 0..Len(Whole)}
Damaged ==
  {Scan([Whole EXCEPT ![k] = ")"]) : k \in 1..Len(Whole)}

(* Every token stream of at most MaxLen tokens over Alphabet.              *)
Alphabet == {"x", "1", "=", ";", "+", "(", "{", "}", "var", "print", "@"}
Streams == UNION {[1..n -> {TokenOf[w] : w \in Alphabet}] : n \in 0..MaxLen}

Sources ==
  Statements \cup Functions \cup Recursions \cup Shorts \cup Fors \cup Infixes
  \cup Assigns \cup Returns \cup Faulty
  \cup Shadows \cup AtLimits \cup CutOff \cup Damaged \cup Streams

----------------------------------------------------------------------------
(* The program: main() has called initVM() and calls interpret(source).    *)

NoAudit ==
  [errCalls |-> 0, errPrints |-> 0, firstError |-> "", lastType |-> "",
   statements |-> <<0>>, marks |-> {}, jumps |-> {}, pieces |-> 0,
   loops |-> {}, lastString |-> [chars |-> <<>>, r |-> NULL],
   decls |-> {}, refs |-> {}, sets |-> {}, owner |-> <<>>, turns |-> <<>>,
   scopes |-> <<>>,
   scope |-> [closed |-> FALSE, depth |-> 0, locals |-> <<>>, declared |-> 0,
              depthAfter |-> 0, localsAfter |-> <<>>, pops |-> 0]]

Init ==
  /\ scanner \in {[tokens |-> src, pos |-> 1] : src \in Sources}
  /\ parser = [previous |-> NoTok, current |-> NoTok, hadError |-> FALSE,
               panicMode |-> FALSE]
  /\ current = <<>>
  /\ vm = initVM
  /\ errout = <<>>
  /\ stdout = <<>>
  /\ cstack = <<Enter("interpret")>>
  /\ result = [compiled |-> FALSE, function |-> NULL, interpret |-> ""]
  /\ audit = NoAudit

Next ==
  \/ interpret \/ interpret_1 \/ run
  \/ compile \/ compile_1
  \/ declaration \/ declaration_1 \/ synchronize \/ synchronize_1
  \/ funDeclaration \/ funDeclaration_1
  \/ function \/ function_1 \/ function_2 \/ function_3
  \/ varDeclaration \/ varDeclaration_1 \/ block
  \/ statement \/ statement_1
  \/ printStatement \/ printStatement_1
  \/ expressionStatement \/ expressionStatement_1
  \/ returnStatement \/ returnStatement_1
  \/ ifStatement \/ ifStatement_1 \/ ifStatement_2 \/ ifStatement_3
  \/ whileStatement \/ whileStatement_1 \/ whileStatement_2
  \/ forStatement \/ forStatement_1 \/ forStatement_2 \/ forStatement_3
  \/ forStatement_4 \/ forStatement_5 \/ forStatement_6
  \/ parsePrecedence \/ parsePrecedence_1
  \/ grouping \/ grouping_1 \/ unary \/ unary_1 \/ binary \/ binary_1
  \/ call \/ call_1 \/ and_ \/ and_1 \/ or_ \/ or_1
  \/ variable \/ variable_1

Spec == Init /\ [][Next]_vars

----------------------------------------------------------------------------
(* The string heap alone: copyString and takeString called in any order    *)
(* with any of the byte sequences Keys, as the compiler (identifiers,      *)
(* string literals) and the VM (concatenation) call them.                  *)
(* audit.lastString keeps the last call's bytes and the object it returned.*)

Keys == UNION {[1..n -> {97, 98}] : n \in 0..2}

InitIntern ==
  /\ scanner = [tokens |-> <<>>, pos |-> 1]
  /\ parser = [previous |-> NoTok, current |-> NoTok, hadError |-> FALSE,
               panicMode |-> FALSE]
  /\ current = <<>>
  /\ vm = initVM
  /\ errout = <<>>
  /\ stdout = <<>>
  /\ cstack = <<>>
  /\ result = [compiled |-> FALSE, function |-> NULL, interpret |-> ""]
  /\ audit = NoAudit

Interned(c, chars) ==
  /\ vm' = c.v
  /\ audit' = [audit EXCEPT !.lastString = [chars |-> chars, r |-> c.r]]
  /\ UNCHANGED <<scanner, parser, current, errout, stdout, cstack, result>>

callCopyString == \E chars \in Keys : Interned(copyString(vm, chars), chars)

callTakeString == \E chars \in Keys : Interned(takeString(vm, chars), chars)

NextIntern == callCopyString \/ callTakeString

SpecIntern == InitIntern /\ [][NextIntern]_vars

----------------------------------------------------------------------------
(* A deep recursion: f declares 254 locals and calls itself below seven    *)
(* operands waiting on the stack, so each call of f takes 262 slots and    *)
(* the 64 frames allowed need more than the STACK_MAX slots of vm.stack.   *)

Deep ==
  Scan(<<"fun", "f", "(", ")", "{">>) \o VarDecls(1, UINT8_COUNT - 2)
    \o Repeat(Scan(<<"nil", "==", "(">>), 7) \o Scan(<<"f", "(", ")">>)
    \o Repeat(Scan(<<")">>), 7) \o Scan(<<";", "}", "f", "(", ")", ";">>)

InitDeep ==
  /\ scanner = [tokens |-> Deep, pos |-> 1]
  /\ parser = [previous |-> NoTok, current |-> NoTok, hadError |-> FALSE,
               panicMode |-> FALSE]
  /\ current = <<>>
  /\ vm = initVM
  /\ errout = <<>>
  /\ stdout = <<>>
  /\ cstack = <<Enter("interpret")>>
  /\ result = [compiled |-> FALSE, function |-> NULL, interpret |-> ""]
  /\ audit = NoAudit

(* push() has stored a value past the end of vm.stack (vm.c line 60 with   *)
(* stackTop == stack + STACK_MAX): the behaviour is undefined.  The run    *)
(* goes on (runLoop), or it ends here in any way.                         *)
undefinedBehaviour ==
  /\ At("run")
  /\ Len(vm.stack) > STACK_MAX
  /\ \E outcome \in {"INTERPRET_OK", "INTERPRET_RUNTIME_ERROR", "SIGSEGV"} :
       result' = [result EXCEPT !.interpret = outcome]
  /\ cstack' = Return(cstack)
  /\ UNCHANGED <<scanner, parser, current, vm, errout, stdout, audit>>

(* The loop of run(): its turns up to the halt of the run, or up to the     *)
(* first push that stores past the end of vm.stack when none has yet      *)
(* (within).                                                               *)
runDone(x, within) ==
  \/ x.halt # ""
  \/ within /\ Len(x.v.stack) > STACK_MAX

RECURSIVE executeSome(_, _, _)
executeSome(x, within, n) ==
  IF n = 0 \/ runDone(x, within) THEN x
  ELSE executeSome(execute(x.v, x.out), within, n - 1)

RECURSIVE executeMany(_, _, _)
executeMany(x, within, n) ==
  IF n = 0 \/ runDone(x, within) THEN x
  ELSE LET go(y) == executeMany(y, within, n - 1)
       IN go(executeSome(x, within, 16))

RECURSIVE executeAll(_, _)
executeAll(x, within) ==
  IF runDone(x, within) THEN x
  ELSE LET go(y) == executeAll(y, within)
       IN go(executeMany(x, within, 32))

executeLoop(V, out) ==
  executeAll(execute(V, out), Len(V.stack) <= STACK_MAX)

runLoop ==
  /\ At("run")
  /\ \E x \in {executeLoop(vm, stdout)} :
        /\ vm' = x.v
        /\ stdout' = x.out
        /\ errout' = IF x.halt = "INTERPRET_RUNTIME_ERROR"
                     THEN Append(errout, [type |-> "runtime", lex |-> <<>>,
                                          msg |-> x.msg])
                     ELSE errout
        /\ result' = [result EXCEPT !.interpret = x.halt]
        /\ cstack' = IF x.halt = "" THEN cstack ELSE Return(cstack)
        /\ UNCHANGED <<scanner, parser, current, audit>>

(* The functions this source goes through.                                 *)
NextDeep ==
  \/ interpret \/ interpret_1 \/ runLoop \/ undefinedBehaviour
  \/ compile \/ compile_1 \/ declaration \/ declaration_1
  \/ funDeclaration \/ funDeclaration_1
  \/ function \/ function_2 \/ function_3
  \/ varDeclaration \/ varDeclaration_1 \/ block
  \/ statement \/ statement_1
  \/ expressionStatement \/ expressionStatement_1
  \/ parsePrecedence \/ parsePrecedence_1
  \/ grouping \/ grouping_1 \/ binary \/ binary_1 \/ call \/ variable

SpecDeep == InitDeep /\ [][NextDeep]_vars

----------------------------------------------------------------------------
(* The command line: main() with its arguments, the file named by the     *)
(* first, and the lines of standard input.  result.process holds what the  *)
(* process was started with and its exit status (-1 while it runs).        *)

MaxLines == 2

(* A source that runs, one that does not compile, one that fails when run. *)
Lines ==
  { Scan(<<"print", "1", ";">>), Scan(<<"print", ";">>),
    Scan(<<"print", "x", ";">>) }

(* What readFile(path) meets: a file it reads, or fopen, malloc or fread   *)
(* failing.                                                                *)
Files ==
  {[error |-> "", source |-> src] : src \in Lines}
    \cup {[error |-> e, source |-> <<>>] : e \in {"fopen", "malloc", "fread"}}

Inputs ==
  {[argc |-> 1, file |-> [error |-> "fopen", source |-> <<>>], stdin |-> in] :
     in \in UNION {[1..n -> Lines] : n \in 0..MaxLines}}
    \cup {[argc |-> 2, file |-> f, stdin |-> <<>>] : f \in Files}
    \cup {[argc |-> n, file |-> [error |-> "", source |-> <<>>],
           stdin |-> <<>>] : n \in {0, 3, 4}}

InitMain ==
  /\ scanner = [tokens |-> <<>>, pos |-> 1]
  /\ parser = [previous |-> NoTok, current |-> NoTok, hadError |-> FALSE,
               panicMode |-> FALSE]
  /\ current = <<>>
  /\ vm = initVM
  /\ errout = <<>>
  /\ stdout = <<>>
  /\ cstack = <<Enter("main")>>
  /\ \E in \in Inputs :
       result = [compiled |-> FALSE, function |-> NULL, interpret |-> "",
                 process |-> [argc |-> in.argc, file |-> in.file,
                              stdin |-> in.stdin, exit |-> -1,
                              interprets |-> 0]]
  /\ audit = NoAudit

(* exit(status), and interpret(source) called with cont to go on at.       *)
exit(status) ==
  /\ cstack' = <<>>
  /\ result' = [result EXCEPT !.process.exit = status]

callInterpret(source, cont) ==
  /\ scanner' = [tokens |-> source, pos |-> 1]
  /\ cstack' = Call(cstack, Enter(cont), Enter("interpret"))

fprintf(message) ==
  Append(errout, [type |-> "main", lex |-> <<>>, msg |-> message])

main ==
  /\ At("main")
  /\ vm' = initVM
  /\ UNCHANGED <<scanner, parser, current, stdout, audit>>
  /\ IF result.process.argc = 1
     THEN /\ cstack' = Call(cstack, Enter("main_1"), Enter("repl"))
          /\ UNCHANGED <<errout, result>>
     ELSE IF result.process.argc = 2
     THEN /\ cstack' = Call(cstack, Enter("main_1"), Enter("runfile"))
          /\ UNCHANGED <<errout, result>>
     ELSE /\ errout' = fprintf("Usage: clox [path]")
          /\ exit(64)

(* return 0;                                                               *)
main_1 ==
  /\ At("main_1")
  /\ exit(0)
  /\ UNCHANGED <<scanner, parser, current, vm, errout, stdout, audit>>

(* One turn of the loop of repl(): the prompt, then the end of input or a  *)
(* line to interpret, whose result is dropped.                             *)
repl ==
  /\ At("repl")
  /\ UNCHANGED <<parser, current, vm, errout, audit>>
  /\ IF result.process.stdin = <<>>
     THEN /\ stdout' = stdout \o <<"> ", "\n">>
          /\ cstack' = Return(cstack)
          /\ UNCHANGED <<scanner, result>>
     ELSE /\ stdout' = Append(stdout, "> ")
          /\ callInterpret(Head(result.process.stdin), "repl")
          /\ result' = [result EXCEPT !.process.stdin = Tail(@),
                                      !.process.interprets = @ + 1]

(* readFile(path), then interpret(source).                                 *)
runfile ==
  /\ At("runfile")
  /\ UNCHANGED <<parser, current, vm, stdout, audit>>
  /\ IF result.process.file.error = "fopen"
     THEN /\ errout' = fprintf("Could not open file.")
          /\ exit(74)
          /\ UNCHANGED scanner
     ELSE IF result.process.file.error = "malloc"
     THEN /\ errout' = fprintf("Not enough memory to read.")
          /\ exit(74)
          /\ UNCHANGED scanner
     ELSE IF result.process.file.error = "fread"
     THEN /\ errout' = fprintf("Could not read file.")
          /\ exit(74)
          /\ UNCHANGED scanner
     ELSE /\ callInterpret(result.process.file.source, "runfile_1")
          /\ result' = [result EXCEPT !.process.interprets = @ + 1]
          /\ UNCHANGED errout

(* The exit statuses of runfile with those of the two errors exchanged.    *)
runfileExchanged ==
  /\ At("runfile_1")
  /\ UNCHANGED <<scanner, parser, current, vm, errout, stdout, audit>>
  /\ IF result.interpret = "INTERPRET_COMPILE_ERROR" THEN exit(70)
     ELSE IF result.interpret = "INTERPRET_RUNTIME_ERROR" THEN exit(65)
     ELSE cstack' = Return(cstack) /\ UNCHANGED result

(* After interpret(): exit(65), exit(70), or back to main.                 *)
runfile_1 ==
  /\ At("runfile_1")
  /\ UNCHANGED <<scanner, parser, current, vm, errout, stdout, audit>>
  /\ IF result.interpret = "INTERPRET_COMPILE_ERROR" THEN exit(65)
     ELSE IF result.interpret = "INTERPRET_RUNTIME_ERROR" THEN exit(70)
     ELSE cstack' = Return(cstack) /\ UNCHANGED result

NextMain ==
  \/ main \/ main_1 \/ repl \/ runfile \/ runfile_1
  \/ interpret \/ interpret_1 \/ run
  \/ compile \/ compile_1
  \/ declaration \/ declaration_1 \/ synchronize \/ synchronize_1
  \/ statement \/ statement_1 \/ printStatement \/ printStatement_1
  \/ parsePrecedence \/ parsePrecedence_1 \/ variable

SpecMain == InitMain /\ [][NextMain]_vars

----------------------------------------------------------------------------
(* The jump operands over long code: emitJump, patchJump and emitLoop as   *)
(* the statement functions use them (an offset or a loopStart kept in a    *)
(* local of the caller, here in its frame), with code of any length        *)
(* emitted in between.                                                     *)

MaxPieces == 1
MaxJumps == 2

(* The lengths of the code emitted between: one and two bytes of          *)
(* distance, and around the limits of both operands.                       *)
CodeSizes ==
  {1, UINT8_MAX + 45, UINT16_MAX - 3, UINT16_MAX - 2, UINT16_MAX,
   UINT16_MAX + 1}

(* n calls of emitByte.                                                    *)
emitCode(W, n) ==
  [W EXCEPT !.vm.objects[currentFunction(W)].code =
              @ \o [i \in 1..n |-> Op.OP_NIL],
            !.audit.pieces = @ + 1]

InitJump ==
  \E W \in {initCompiler([scanner |-> [tokens |-> <<>>, pos |-> 1],
                          parser |-> [previous |-> NoTok, current |-> NoTok,
                                      hadError |-> FALSE, panicMode |-> FALSE],
                          current |-> <<>>, vm |-> initVM, errout |-> <<>>,
                          audit |-> NoAudit], "TYPE_SCRIPT")} :
    /\ scanner = W.scanner
    /\ parser = W.parser
    /\ current = W.current
    /\ vm = W.vm
    /\ errout = W.errout
    /\ audit = W.audit
    /\ stdout = <<>>
    /\ cstack = <<>>
    /\ result = [compiled |-> FALSE, function |-> NULL, interpret |-> ""]

JumpsBegun ==
  Len(cstack) + Cardinality(audit.jumps) + Cardinality(audit.loops)

callEmitCode ==
  /\ audit.pieces < MaxPieces
  /\ \E n \in CodeSizes : Set(emitCode(World, n), cstack)

callEmitJump ==
  /\ JumpsBegun < MaxJumps
  /\ \E instruction \in {Op.OP_JUMP, Op.OP_JUMP_IF_FALSE} :
     \E j \in {emitJump(World, instruction)} :
       Set(j.w, Append(cstack, Frame("patchJump", "", <<j.r>>)))

callPatchJump ==
  /\ At("patchJump")
  /\ Set(patchJump(World, Top.v[1]), Return(cstack))

(* int loopStart = currentChunk()->count;                                  *)
loopStart ==
  /\ JumpsBegun < MaxJumps
  /\ Set(World, Append(cstack, Frame("emitLoop", "", <<count(World)>>)))

callEmitLoop ==
  /\ At("emitLoop")
  /\ Set(emitLoop(World, Top.v[1]), Return(cstack))

NextJump ==
  callEmitCode \/ callEmitJump \/ callPatchJump \/ loopStart \/ callEmitLoop

SpecJump == InitJump /\ [][NextJump]_vars

----------------------------------------------------------------------------
(* Properties.                                                             *)

(* The messages a step writes.                                             *)
Written == {errout'[k].msg : k \in (Len(errout) + 1)..Len(errout')}

(* The messages errorAt has written (the VM's runtime errors left out).    *)
CompileErrors == SelectSeq(errout, LAMBDA e : e.type # "runtime")

(* The chunk of the script: the first object compile() allocates.          *)
Script == vm.objects[1]

(* C1: once compile() has returned, its result is a function exactly when  *)
(* no error message was written during the compilation, and that function  *)
(* is the top-level script (the function with no name); after one error    *)
(* the result is NULL whatever compiled cleanly afterwards.                *)
C1_CompileResult ==
  result.compiled =>
    /\ (result.function # NULL) <=> (CompileErrors = <<>>)
    /\ result.function # NULL =>
         /\ vm.objects[result.function].type = "OBJ_FUNCTION"
         /\ vm.objects[result.function].name = NULL

(* C1 witness: compile() has returned NULL although panicMode was cleared  *)
(* after the one error and a print statement was compiled after it.        *)
C1_Witness ==
  /\ result.compiled
  /\ result.function = NULL
  /\ ~parser.panicMode
  /\ Len(CompileErrors) = 1
  /\ \E i \in 1..Len(Script.code) : Script.code[i] = Op.OP_PRINT

(* The statement boundaries at the running frame's ip.                     *)
MarksHere ==
  {m \in audit.marks : m[1] = frameOf(vm).function /\ m[2] = frameOf(vm).ip}

(* C2: whenever the VM stands at an offset where the compiler entered or   *)
(* left a statement (expression statement, print, block, if, while, for,   *)
(* return), the frame's part of the stack holds exactly the locals that    *)
(* were declared when the statement was entered: the statement has left    *)
(* the stack at the height it had before it, and on every path.            *)
C2_StackDiscipline ==
  (At("run") /\ vm.frames # <<>>) =>
    \A m \in MarksHere : Len(vm.stack) - frameOf(vm).slots = m[3]

(* C2 witness: inside a called function, after a print, the VM stands at a *)
(* statement boundary with locals beside the callee on the stack.          *)
C2_Witness ==
  /\ At("run")
  /\ vm.frames # <<>>
  /\ MarksHere # {}
  /\ frameOf(vm).slots > 0
  /\ Len(vm.stack) - frameOf(vm).slots > 1
  /\ stdout # <<>>

(* The numbers printed so far.                                             *)
Printed == [i \in 1..Len(stdout) |-> stdout[i].n]

(* C3: a program that declares x with value a, redeclares x with value b   *)
(* in an inner block, prints x there and prints x again after the block    *)
(* prints b and then a; when the inner x is assigned 3 before its print,   *)
(* it prints 3 and then a.  The outer x is a global or a local, the inner  *)
(* print may sit one block deeper.                                         *)
C3_Shadowing ==
  cstack = <<>> =>
    \A kind \in ShadowKinds : \A a \in ShadowValues : \A b \in ShadowValues :
      scanner.tokens = Shadow(kind, a, b) =>
        /\ result.interpret = "INTERPRET_OK"
        /\ Printed = <<IF kind = "assign" THEN 3 ELSE strtod(TokenOf[b].lex),
                       strtod(TokenOf[a].lex)>>

(* C3 witness: the run of { var x = 1; { var x = 2; print x; } print x; }  *)
(* has ended, having printed 2 and then 1.                                 *)
C3_Witness ==
  /\ cstack = <<>>
  /\ scanner.tokens = Shadow("local", "1", "2")
  /\ Printed = <<2, 1>>

(* The ObjStrings on the heap.                                             *)
Strings == {o \in 1..Len(vm.objects) : vm.objects[o].type = "OBJ_STRING"}

(* C4: after any calls of copyString and takeString, no two ObjStrings on  *)
(* the heap hold equal bytes, every ObjString is found in vm.strings under *)
(* its bytes, and the last call returned an ObjString holding the bytes it *)
(* was given: calls with equal bytes return the same object.               *)
C4_Interning ==
  /\ \A o1 \in Strings : \A o2 \in Strings :
       vm.objects[o1].chars = vm.objects[o2].chars => o1 = o2
  /\ \A o \in Strings :
       tableFindString(vm.strings, vm.objects[o].chars, vm.objects[o].hash,
                       vm.objects) = o
  /\ audit.lastString.r # NULL =>
       /\ audit.lastString.r \in Strings
       /\ vm.objects[audit.lastString.r].chars = audit.lastString.chars

(* C4 witness: every sequence of Keys is interned, the table has grown     *)
(* past its first capacity, and the last call returned the first object    *)
(* made, not a new one.                                                    *)
C4_Witness ==
  /\ Cardinality(Strings) = Cardinality(Keys)
  /\ vm.strings.capacity > 8
  /\ audit.lastString.r = 1

(* The ObjFunctions on the heap.                                           *)
FunctionObjects ==
  {o \in 1..Len(vm.objects) : vm.objects[o].type = "OBJ_FUNCTION"}

(* The offsets at which the instructions of code start: decoded from       *)
(* offset 0, each opcode followed by its operand bytes.  DecodeSome reads  *)
(* at most n instructions on from r.i.                                     *)
RECURSIVE DecodeSome(_, _, _)
DecodeSome(code, r, n) ==
  IF n = 0 \/ r.i >= Len(code) THEN r
  ELSE DecodeSome(code,
                  [i |-> r.i + 1 + OperandBytes(code[r.i + 1]),
                   at |-> Append(r.at, r.i)],
                  n - 1)

RECURSIVE DecodeFrom(_, _)
DecodeFrom(code, r) ==
  IF r.i >= Len(code) THEN r.at ELSE DecodeFrom(code, DecodeSome(code, r, 32))

StartsOf(at) == {at[k] : k \in 1..Len(at)}
Starts(code) == StartsOf(DecodeFrom(code, [i |-> 0, at |-> <<>>]))

(* The 16-bit operand of the instruction at offset i.                      *)
Operand16(code, i) == code[i + 2] * 256 + code[i + 3]

JumpsLand(code, starts) ==
  \A i \in starts :
    /\ code[i + 1] \in {Op.OP_JUMP, Op.OP_JUMP_IF_FALSE} =>
         (i + 3 + Operand16(code, i)) \in starts
    /\ code[i + 1] = Op.OP_LOOP => (i + 3 - Operand16(code, i)) \in starts

(* C5: when compile() has returned, in the chunk of every function each    *)
(* OP_JUMP and OP_JUMP_IF_FALSE lands on the start of an instruction of    *)
(* that chunk (so none keeps its placeholder 0xffff, which would land      *)
(* beyond the chunk), each OP_LOOP lands on the start of an instruction,   *)
(* and each OP_LOOP lands exactly on the loopStart it was emitted for.     *)
C5_JumpTargets ==
  At("interpret_1") =>
    /\ \A o \in FunctionObjects :
         JumpsLand(vm.objects[o].code, Starts(vm.objects[o].code))
    /\ \A l \in audit.loops :
         /\ vm.objects[l[1]].code[l[2] + 1] = Op.OP_LOOP
         /\ l[2] + 3 - Operand16(vm.objects[l[1]].code, l[2]) = l[3]

(* C5 witness: compile() has returned a function whose chunk holds a       *)
(* forward jump, a conditional jump and two loops (a for statement with    *)
(* an increment clause).                                                   *)
C5_Witness ==
  /\ At("interpret_1")
  /\ result.function # NULL
  /\ \E o \in FunctionObjects :
       LET code == vm.objects[o].code
           starts == Starts(code)
       IN /\ \E i \in starts : code[i + 1] = Op.OP_JUMP
          /\ \E i \in starts : code[i + 1] = Op.OP_JUMP_IF_FALSE
          /\ Cardinality({l \in audit.loops : l[1] = o}) >= 2

(* Since panicMode was last cleared one message at most was written, the  *)
(* first reported, and panicMode is set from it.                           *)
FirstErrorOnly ==
  /\ audit.errPrints = IF audit.errCalls > 0 THEN 1 ELSE 0
  /\ audit.errCalls > 0 =>
       /\ parser.panicMode
       /\ CompileErrors # <<>>
       /\ Last(CompileErrors).msg = audit.firstError

ConstantOps ==
  {Op.OP_CONSTANT, Op.OP_GET_GLOBAL, Op.OP_DEFINE_GLOBAL, Op.OP_SET_GLOBAL}

ConstantUses(code) == {i \in Starts(code) : code[i + 1] \in ConstantOps}

TooManyConstants ==
  \E k \in 1..Len(CompileErrors) :
    CompileErrors[k].msg = "Too many constants in one chunk."

(* C7: a chunk that holds more than 256 constants has made the compilation *)
(* fail, and "Too many constants in one chunk." is written only when a     *)
(* chunk holds more than 256; when compile() has returned, in a chunk of   *)
(* 256 constants at most the constant operands are exactly the indices     *)
(* 0..n-1 of its n constants, each used once, so all lie in 0..255.        *)
C7_ConstantLimit ==
  /\ \A o \in FunctionObjects :
       Len(vm.objects[o].constants) > UINT8_COUNT =>
         parser.hadError /\ result.function = NULL
  /\ TooManyConstants =>
       \E o \in FunctionObjects : Len(vm.objects[o].constants) > UINT8_COUNT
  /\ At("interpret_1") =>
       \A o \in FunctionObjects :
         LET code == vm.objects[o].code
             n == Len(vm.objects[o].constants)
             uses == ConstantUses(code)
         IN n <= UINT8_COUNT =>
              /\ {code[i + 2] : i \in uses} = 0..(n - 1)
              /\ Cardinality(uses) = n

(* C7 witness: compile() has returned a function whose chunk holds 256     *)
(* constants, the last used with operand 255.                              *)
C7_Witness ==
  /\ At("interpret_1")
  /\ result.function # NULL
  /\ Len(Script.constants) = UINT8_COUNT
  /\ \E i \in ConstantUses(Script.code) : Script.code[i + 2] = UINT8_MAX

(* A step that declares a local: parseVariable() in a local scope, for a   *)
(* var declaration or a parameter.                                         *)
DeclaresLocal ==
  /\ At("varDeclaration") \/ At("function_1")
  /\ Last(current).scopeDepth > 0

(* The name about to be declared is an identifier no local bears.          *)
FreshName ==
  /\ parser.current.type = "TOKEN_IDENTIFIER"
  /\ \A i \in 1..localCount(World) :
       Last(current).locals[i].name.lex # parser.current.lex

TooManyLocals == "Too many local variables in function (max 256)."

LocalLimitStep ==
  (current # <<>> /\ Len(current') = Len(current)) =>
    LET n == Len(Last(current).locals)
        n1 == Len(Last(current').locals)
    IN /\ n1 > n => n < UINT8_COUNT /\ n1 = n + 1
       /\ (DeclaresLocal /\ n < UINT8_COUNT) => n1 = n + 1
       /\ (DeclaresLocal /\ n = UINT8_COUNT) =>
            /\ n1 = n
            /\ parser.hadError'
            /\ (~parser.panicMode /\ FreshName) =>
                 Last(errout').msg = TooManyLocals
       /\ (Len(errout') > Len(errout) /\ Last(errout').msg = TooManyLocals) =>
            n = UINT8_COUNT /\ n1 = n

(* C8: a function's compiler never holds more than 256 locals (slot 0      *)
(* counted); a step declaring a local adds exactly one while fewer than    *)
(* 256 exist, and with 256 it adds none and reports "Too many local        *)
(* variables in function (max 256)." (written unless panicMode or an       *)
(* earlier error of the same declaration suppresses it), which is written  *)
(* in no other case.                                                       *)
C8_LocalLimit ==
  /\ [](\A c \in 1..Len(current) : Len(current[c].locals) <= UINT8_COUNT)
  /\ [][LocalLimitStep]_vars

(* C8 witness: with 256 locals in the function a further declaration has   *)
(* been refused, as the only error so far.                                 *)
C8_Witness ==
  /\ current # <<>>
  /\ localCount(World) = UINT8_COUNT
  /\ Len(CompileErrors) = 1
  /\ CompileErrors[1].msg = TooManyLocals
  /\ CompileErrors[1].lex = Ident(UINT8_COUNT).lex

(* The distance an OP_JUMP or OP_JUMP_IF_FALSE patched at j has to cover,  *)
(* and the distance back of the OP_LOOP l.                                 *)
JumpDistance(j) == j[3] - (j[2] + 2)
LoopDistance(l) == (l[2] + 3) - l[3]

(* The operand as the interpreter reads it: high byte first.               *)
ReadShort(code, at) == code[at + 1] * 256 + code[at + 2]

TooFar ==
  {j \in audit.jumps : JumpDistance(j) > UINT16_MAX}
    \cup {l \in audit.loops : LoopDistance(l) > UINT16_MAX}

(* C9: the operand written by patchJump and by emitLoop, read high byte    *)
(* first, is the distance whenever that is 65535 at most; a distance       *)
(* beyond it sets hadError, so compile fails; errors come from nothing     *)
(* else, and the message written is "Too much code to jump over." for a    *)
(* jump and "Loop body too large." for a loop.                             *)
C9_JumpEncoding ==
  /\ \A j \in audit.jumps :
       JumpDistance(j) <= UINT16_MAX =>
         ReadShort(vm.objects[j[1]].code, j[2]) = JumpDistance(j)
  /\ \A l \in audit.loops :
       LoopDistance(l) <= UINT16_MAX =>
         ReadShort(vm.objects[l[1]].code, l[2] + 1) = LoopDistance(l)
  /\ parser.hadError <=> TooFar # {}
  /\ \A k \in 1..Len(errout) :
       \/ /\ errout[k].msg = "Too much code to jump over."
          /\ \E j \in audit.jumps : JumpDistance(j) > UINT16_MAX
       \/ /\ errout[k].msg = "Loop body too large."
          /\ \E l \in audit.loops : LoopDistance(l) > UINT16_MAX
  /\ TooFar # {} => errout # <<>>

(* C9 witness: a jump over 300 bytes was patched with the bytes 1 and 44,  *)
(* and no error was reported.                                              *)
C9_Witness ==
  /\ ~parser.hadError
  /\ \E j \in audit.jumps :
       /\ JumpDistance(j) = 300
       /\ vm.objects[j[1]].code[j[2] + 1] = 1
       /\ vm.objects[j[1]].code[j[2] + 2] = 44

(* run is about to execute OP_CALL with k frames active.                   *)
CallWith(k) ==
  /\ At("run")
  /\ Len(vm.frames) = k
  /\ byteAt(vm, 0) = Op.OP_CALL

(* The callee of the OP_CALL is a function of as many parameters as there  *)
(* are arguments.                                                          *)
CalleeFits ==
  /\ IS_FUNCTION(vm, peek(vm, byteAt(vm, 1)))
  /\ vm.objects[peek(vm, byteAt(vm, 1)).v].arity = byteAt(vm, 1)

StackOverflowStep ==
  /\ CallWith(64) =>
       /\ result'.interpret = "INTERPRET_RUNTIME_ERROR"
       /\ Len(vm'.frames) <= 64
       /\ Len(errout') = Len(errout) + 1
       /\ CalleeFits => Last(errout').msg = "Stack overflow."
  /\ (\E k \in 1..63 : CallWith(k) /\ CalleeFits) =>
       /\ Len(vm'.frames) = Len(vm.frames) + 1
       /\ result'.interpret = ""
  /\ (Len(errout') > Len(errout) /\ Last(errout').msg = "Stack overflow.") =>
       CallWith(64)

(* C10: no state has more than 64 call frames; an OP_CALL executed with    *)
(* 64 frames active (the script's frame counted) pushes no frame and ends  *)
(* the interpretation with a runtime error, "Stack overflow." when the     *)
(* callee is a function called with its number of arguments; with fewer    *)
(* than 64 frames such a call pushes its frame, and "Stack overflow." is   *)
(* written in no other case.                                               *)
C10_CallDepth ==
  /\ [](Len(vm.frames) <= 64)
  /\ [][StackOverflowStep]_vars

(* C10 witness: the interpretation has ended with the runtime error        *)
(* "Stack overflow.".                                                      *)
C10_Witness ==
  /\ result.interpret = "INTERPRET_RUNTIME_ERROR"
  /\ errout # <<>>
  /\ Last(errout).type = "runtime"
  /\ Last(errout).msg = "Stack overflow."
  /\ vm.frames = <<>>

(* C11: the value stack never holds more than STACK_MAX values (stackTop   *)
(* stays within the array, so no push writes past its end), and pop is     *)
(* never applied to an empty stack.                                        *)
C11_StackBounds ==
  /\ Len(vm.stack) <= STACK_MAX
  /\ (At("run") /\ vm.frames # <<>>
        /\ byteAt(vm, 0) \in {Op.OP_POP, Op.OP_PRINT, Op.OP_RETURN,
                              Op.OP_NOT, Op.OP_DEFINE_GLOBAL}) =>
       Len(vm.stack) > 0

----------------------------------------------------------------------------
(* C12: the exit status of the process.  With a path, 65 when interpret    *)
(* returned INTERPRET_COMPILE_ERROR, 70 when INTERPRET_RUNTIME_ERROR, 74   *)
(* when the file could not be opened, allocated or read, 0 when            *)
(* INTERPRET_OK; with more arguments 64 and nothing interpreted; without   *)
(* arguments every line of the input has been interpreted and the status   *)
(* is 0, whatever interpret returned.                                      *)
Exited == result.process.exit # -1

C12_ExitStatus ==
  Exited =>
    LET p == result.process IN
    /\ p.argc = 2 =>
         /\ p.exit = (CASE p.file.error # "" -> 74
                        [] p.file.error = ""
                           /\ result.interpret = "INTERPRET_COMPILE_ERROR" -> 65
                        [] p.file.error = ""
                           /\ result.interpret = "INTERPRET_RUNTIME_ERROR" -> 70
                        [] p.file.error = ""
                           /\ result.interpret = "INTERPRET_OK" -> 0)
         /\ p.interprets = (IF p.file.error = "" THEN 1 ELSE 0)
    /\ p.argc > 2 => p.exit = 64 /\ p.interprets = 0 /\ ~result.compiled
    /\ p.argc = 1 => p.exit = 0 /\ p.stdin = <<>>

(* A file that did not compile has ended the process with 65.             *)
C12_Witness ==
  /\ Exited
  /\ result.process.argc = 2
  /\ result.process.file.error = ""
  /\ result.interpret = "INTERPRET_COMPILE_ERROR"
  /\ result.process.exit = 65

----------------------------------------------------------------------------
(* C13: in a running program (one that compiled without error), a frame is *)
(* entered with the callee in its slot 0 and the arguments in slots        *)
(* 1..arity, the slots of the locals declared at the function's start;     *)
(* where the declaration of a later local is complete, the value on top of *)
(* the stack lies in that local's slot; and whenever OP_GET_LOCAL s or     *)
(* OP_SET_LOCAL s executes, slot s of the frame holds the value of a       *)
(* declaration of the name the instruction was emitted for.                *)
LocalOps == {Op.OP_GET_LOCAL, Op.OP_SET_LOCAL}

SlotOwner(s) ==
  IF frameOf(vm).slots + s + 1 <= Len(audit.owner)
  THEN audit.owner[frameOf(vm).slots + s + 1] ELSE NoOwner

C13_LocalSlots ==
  (At("run") /\ vm.frames # <<>>) =>
    LET frame == frameOf(vm)
        here == DeclsAt(audit.decls, vm)
    IN
    /\ \A d \in here :
         d.offset > 0 => Len(vm.stack) = frame.slots + d.slot + 1
    /\ frame.ip = 0 =>
         /\ vm.stack[frame.slots + 1] = OBJ_VAL(frame.function)
         /\ Len(vm.stack) - frame.slots = vm.objects[frame.function].arity + 1
         /\ {d.slot : d \in here} = 0..vm.objects[frame.function].arity
    /\ byteAt(vm, 0) \in LocalOps =>
         \E r \in audit.refs :
           /\ r.function = frame.function
           /\ r.offset = frame.ip
           /\ SlotOwner(byteAt(vm, 1)).function = frame.function
           /\ SlotOwner(byteAt(vm, 1)).slot = byteAt(vm, 1)
           /\ SlotOwner(byteAt(vm, 1)).name = r.name

(* C13 witness: in a called function with a parameter, OP_GET_LOCAL is     *)
(* about to read a local declared in the body, above the parameter's slot. *)
C13_Witness ==
  /\ At("run")
  /\ vm.frames # <<>>
  /\ frameOf(vm).slots > 0
  /\ vm.objects[frameOf(vm).function].arity > 0
  /\ byteAt(vm, 0) = Op.OP_GET_LOCAL
  /\ byteAt(vm, 1) > vm.objects[frameOf(vm).function].arity

----------------------------------------------------------------------------
(* C14: a function f declared with fun at the top level, in a block or in  *)
(* another function, whose body calls f, runs: the call in the body        *)
(* reaches f itself, so f(1) counts down to 0 and the program prints 0.    *)
C14_Recursion ==
  cstack = <<>> =>
    \A kind \in RecursionKinds :
      scanner.tokens = Recursive(kind) =>
        /\ result.interpret = "INTERPRET_OK"
        /\ Printed = <<0>>

----------------------------------------------------------------------------
(* C15: when endScope has closed a scope, scopeDepth and the number of     *)
(* locals are what they were at the scope's beginScope, one OP_POP was     *)
(* emitted for each local added in the scope, and the locals of the        *)
(* enclosing scopes are the same, with the same depths, as at beginScope:  *)
(* with or without errors in the scope.                                    *)
C15_ScopeExit ==
  audit.scope.closed =>
    /\ audit.scope.depthAfter = audit.scope.depth
    /\ Len(audit.scope.localsAfter) = Len(audit.scope.locals)
    /\ audit.scope.pops = audit.scope.declared
    /\ audit.scope.localsAfter = audit.scope.locals

----------------------------------------------------------------------------
(* The locals of a Compiler in ascending order of depth, and with distinct *)
(* names wherever two have the same depth.                                 *)
Ascending(locals) ==
  \A i \in 1..Len(locals) - 1 : locals[i].depth <= locals[i + 1].depth

DistinctNames(locals) ==
  \A i \in 1..Len(locals) : \A j \in (i + 1)..Len(locals) :
    locals[i].depth = locals[j].depth => locals[i].name.lex # locals[j].name.lex

(* The locals but for a last one that is declared and not yet initialized  *)
(* (depth -1).                                                             *)
Initialized(locals) ==
  IF locals # <<>> /\ Last(locals).depth = -1 THEN Front(locals) ELSE locals

(* C16 as stated: in every state of the compilation, the locals of each    *)
(* Compiler are sorted by ascending depth, and two locals of equal depth   *)
(* have distinct names.                                                    *)
C16_LocalsSorted ==
  \A c \in 1..Len(current) :
    Ascending(current[c].locals) /\ DistinctNames(current[c].locals)

(* C16: in every state of the compilation, the locals of each Compiler,    *)
(* but for a last one still at depth -1 while its initializer is compiled, *)
(* are sorted by ascending depth; and as long as no error has been         *)
(* reported, two locals of equal depth have distinct names.                *)
C16_LocalsInitializedSorted ==
  \A c \in 1..Len(current) :
    /\ Ascending(Initialized(current[c].locals))
    /\ ~parser.hadError => DistinctNames(current[c].locals)

(* C16 witness: without any error, a Compiler holds two locals of the same *)
(* name at different depths below a local that is being initialized.       *)
C16_Witness ==
  /\ ~parser.hadError
  /\ current # <<>>
  /\ \E i, j \in 1..Len(Last(current).locals) :
       /\ i < j
       /\ Last(current).locals[i].name.lex = Last(current).locals[j].name.lex
       /\ Last(current).locals[i].depth = 1
       /\ Last(current).locals[j].depth = -1

----------------------------------------------------------------------------
(* The innermost local of the current function that bears the name of the  *)
(* token, as a position in locals (0: none).                               *)
Innermost(token) ==
  LET named == {i \in 1..Len(Last(current).locals) :
                  Last(current).locals[i].name.lex = token.lex}
  IN IF named = {} THEN 0 ELSE CHOOSE i \in named : \A j \in named : j <= i

OwnInitializer == "Cannot read local variable in its own initializer."

(* What a step of variable() leaves: the local instruction emitted for     *)
(* slot, or the assignment's OP_SET_LOCAL for slot waiting for its value.  *)
RefersToSlot(slot) ==
  \/ /\ Len(cstack') = Len(cstack) + 1
     /\ cstack'[Len(cstack)].pc = "variable_1"
     /\ cstack'[Len(cstack)].v[1] = Op.OP_SET_LOCAL
     /\ cstack'[Len(cstack)].v[2] = slot
  \/ LET code == vm'.objects[Last(current).function].code
     IN /\ Len(code) >= 2
        /\ code[Len(code) - 1] = Op.OP_GET_LOCAL
        /\ code[Len(code)] = slot

SelfReferenceStep ==
  (At("variable") /\ Innermost(parser.previous) > 0) =>
    LET i == Innermost(parser.previous)
    IN /\ RefersToSlot(i - 1)
       /\ Last(current).locals[i].depth = -1 =>
            /\ parser.hadError'
            /\ ~parser.panicMode =>
                 /\ Len(errout') = Len(errout) + 1
                 /\ Last(errout').msg = OwnInitializer
       /\ Last(current).locals[i].depth # -1 => errout' = errout

(* C17: a reference to a name whose innermost local is declared and not    *)
(* yet initialized (depth -1) is the error "Cannot read local variable in  *)
(* its own initializer." (written unless panicMode suppresses it),         *)
(* whatever locals of that name the enclosing scopes hold; a reference to  *)
(* a name whose innermost local is initialized is no error; either way the *)
(* instruction emitted refers to that local's slot.                        *)
C17_OwnInitializer == [][SelfReferenceStep]_vars

(* C17 witness: the error has been written for the initializer of a local  *)
(* that shadows an initialized local of the same name.                     *)
C17_Witness ==
  /\ current # <<>>
  /\ Len(CompileErrors) = 1
  /\ CompileErrors[1].msg = OwnInitializer
  /\ \E i, j \in 1..Len(Last(current).locals) :
       /\ i < j
       /\ Last(current).locals[i].name.lex = Last(current).locals[j].name.lex
       /\ Last(current).locals[i].depth = 1
       /\ Last(current).locals[j].depth = -1

----------------------------------------------------------------------------
(* A step that declares the name parser.current: parseVariable() for a     *)
(* var declaration, a function's name or a parameter.                      *)
DeclaresName ==
  /\ At("varDeclaration") \/ At("funDeclaration") \/ At("function_1")
  /\ parser.current.type = "TOKEN_IDENTIFIER"

(* The locals added since the innermost open scope began, a function's     *)
(* parameters and the locals of its body being of one scope.               *)
InThisScope ==
  IF audit.scopes = <<>> THEN {}
  ELSE (Len(Last(audit.scopes).locals) + 1)..Len(Last(current).locals)

AlreadyDeclared == "Variable with this name already declared in this scope."

DuplicateStep ==
  DeclaresName =>
    LET twice == \E i \in InThisScope :
                   Last(current).locals[i].name.lex = parser.current.lex
    IN /\ (Last(current).scopeDepth > 0 /\ twice) =>
            /\ parser.hadError'
            /\ (~parser.panicMode
                  /\ vm.objects[Last(current).function].arity < UINT8_MAX) =>
                 /\ Len(errout') > Len(errout)
                 /\ errout'[Len(errout) + 1].msg = AlreadyDeclared
       /\ (Last(current).scopeDepth = 0 \/ ~twice) =>
            AlreadyDeclared \notin Written

(* C18: declaring a name that a local declared in the same scope bears (a  *)
(* parameter counting as of the body's scope) is the error "Variable with  *)
(* this name already declared in this scope." (written unless panicMode    *)
(* suppresses it); declaring a name that no local of the same scope bears, *)
(* or any name at scope depth 0, writes no such message.                   *)
C18_Duplicate == [][DuplicateStep]_vars

----------------------------------------------------------------------------
(* The activations of compile() and function() that are between their      *)
(* initCompiler and their endCompiler.                                     *)
Compiling ==
  {k \in 1..Len(cstack) :
     cstack[k].pc \in {"compile_1", "function_1", "function_2", "function_3"}}

(* A step adds a Compiler only in compile() and function(), which always   *)
(* do, on top of the Compilers there are; it removes one only where        *)
(* function() or compile() ends, which always do, and what is left is the  *)
(* enclosing Compilers as they were; any other step leaves every Compiler  *)
(* but the current one unchanged.                                          *)
CompilerStep ==
  /\ (At("compile") \/ At("function")) =>
       Len(current') = Len(current) + 1 /\ Front(current') = current
  /\ (At("function_3") \/ (At("compile_1") /\ Len(cstack') < Len(cstack))) =>
       current # <<>> /\ current' = Front(current)
  /\ Len(current') > Len(current) => At("compile") \/ At("function")
  /\ Len(current') < Len(current) => At("compile_1") \/ At("function_3")
  /\ Len(current') = Len(current) =>
       \A c \in 1..Len(current) - 1 : current'[c] = current[c]

(* C19: the Compilers are a stack that follows the calls: each activation  *)
(* of compile() or function() holds exactly one Compiler from its          *)
(* initCompiler to its endCompiler; when function() ends, current is the   *)
(* enclosing Compiler with its locals and scopeDepth as the nested         *)
(* compilation found them, and when compile() ends, current is what it was *)
(* before: with or without errors.                                         *)
C19_CompilerStack ==
  /\ [](Len(current) = Cardinality(Compiling))
  /\ [](cstack = <<>> => current = <<>>)
  /\ [][CompilerStep]_vars

(* C19 witness: function() has returned after errors in the function's     *)
(* body, and current is the enclosing Compiler with its three locals in    *)
(* its block.                                                              *)
C19_Witness ==
  /\ At("funDeclaration_1")
  /\ Len(CompileErrors) = 2
  /\ Len(current) = 1
  /\ Len(Last(current).locals) = 3
  /\ Last(current).scopeDepth = 1

----------------------------------------------------------------------------
(* The parser stands at a statement boundary.                              *)
AtBoundary(p) ==
  \/ p.previous.type = "TOKEN_SEMICOLON"
  \/ p.current.type \in SyncTokens
  \/ p.current.type = "TOKEN_EOF"

(* C20: a step in which synchronize() returns leaves panicMode false and   *)
(* the parser at a statement boundary: the previous token is ';', or the   *)
(* current token is one of class, fun, var, for, if, while, print, return  *)
(* or the end of the source.                                               *)
SynchronizeReturns == At("synchronize_1") /\ Len(cstack') < Len(cstack)

C20_Synchronized ==
  [][SynchronizeReturns => ~parser'.panicMode /\ AtBoundary(parser')]_vars

----------------------------------------------------------------------------
(* What print writes for the value of a literal.                           *)
Literal(word) ==
  CASE word = "nil" -> [t |-> "nil", n |-> 0, s |-> <<>>]
    [] word = "false" -> [t |-> "bool", n |-> 0, s |-> <<>>]
    [] word = "true" -> [t |-> "bool", n |-> 1, s |-> <<>>]
    [] OTHER -> [t |-> "number", n |-> strtod(TokenOf[word].lex), s |-> <<>>]

Falsy(word) == word \in {"nil", "false"}

(* The left operand decides: and stops at a falsy one, or at a truthy one. *)
Stops(op, a) == IF op = "and" THEN Falsy(a) ELSE ~Falsy(a)

(* C21: print a and (x = 2); print x; with x = 1 before prints a and then  *)
(* 1 when a is falsy (the right operand was not executed), and 2 and then  *)
(* 2 otherwise; with or in place of and, a and 1 when a is truthy, 2 and 2 *)
(* otherwise.  The expression leaves one value: at every statement         *)
(* boundary of the run the stack holds the locals only.                    *)
C21_ShortCircuit ==
  \A kind \in ShortKinds : \A op \in ShortOps : \A a \in ShortValues :
    scanner.tokens = Short(kind, op, a) =>
      /\ cstack = <<>> =>
           /\ result.interpret = "INTERPRET_OK"
           /\ stdout = IF Stops(op, a) THEN <<Literal(a), Literal("1")>>
                       ELSE <<Literal("2"), Literal("2")>>
      /\ (At("run") /\ vm.frames # <<>>) =>
           \A m \in MarksHere : Len(vm.stack) - frameOf(vm).slots = m[3]

(* C21 witness: the run of { var x = 1; print false or (x = 2); print x; } *)
(* has ended.                                                              *)
C21_Witness ==
  /\ cstack = <<>>
  /\ scanner.tokens = Short("local", "or", "false")
  /\ Len(stdout) = 2

----------------------------------------------------------------------------
(* What the loop of For(kind) prints: 0 for the initializer, 1 for each    *)
(* condition, 3 for each body, 2 for each increment.                       *)
ForOutput(kind) ==
  CASE kind = "full" -> <<0, 1, 3, 2, 1, 3, 2, 1>>
    [] kind = "noInit" -> <<1, 3, 2, 1, 3, 2, 1>>
    [] kind = "noIncr" -> <<0, 1, 3, 1, 3, 1>>
    [] kind = "noCond" -> <<0, 3, 2, 3>>

IsPrefixOf(s, t) == Len(s) <= Len(t) /\ s = SubSeq(t, 1, Len(s))

CountedLoop ==
  Scan(<<"for", "(", "var", "i", "=", "0", ";", "i", "<", "3", ";", "i",
         "=", "i", "+", "1", ")", "print", "i", ";">>)

EndlessLoop ==
  Scan(<<"fun", "f", "(", ")", "{", "for", "(", ";", ";", ")", "{", "}",
         "}", "f", "(", ")", ";">>)

(* C22: a for loop runs its initializer once, then condition, body,        *)
(* increment in this order, and leaves when the condition is falsy: what   *)
(* has been printed is at every moment a beginning of that order and at    *)
(* the end all of it; without an increment the body is followed by the     *)
(* condition; without a condition the loop goes on until the body returns, *)
(* and for (;;) {} never ends;                                             *)
(* for (var i = 0; i < 3; i = i + 1) print i; prints 0 1 2.                *)
C22_ForOrder ==
  /\ \A kind \in ForKinds :
       scanner.tokens = For(kind) =>
         /\ IsPrefixOf(Printed, ForOutput(kind))
         /\ \A i \in 1..Len(stdout) : stdout[i].t = "number"
         /\ cstack = <<>> =>
              /\ result.interpret = "INTERPRET_OK"
              /\ Printed = ForOutput(kind)
  /\ scanner.tokens = CountedLoop =>
       /\ IsPrefixOf(Printed, <<0, 1, 2>>)
       /\ cstack = <<>> =>
            result.interpret = "INTERPRET_OK" /\ Printed = <<0, 1, 2>>
  /\ scanner.tokens = EndlessLoop =>
       /\ result.interpret = ""
       /\ result.compiled => cstack # <<>>

(* C22 witness: the run of the loop with all three clauses has ended.      *)
C22_Witness ==
  /\ cstack = <<>>
  /\ scanner.tokens = For("full")
  /\ Len(stdout) = 8

----------------------------------------------------------------------------
(* The levels of the binary operators, tightest first: FACTOR, TERM,       *)
(* COMPARISON, EQUALITY, AND, OR.                                          *)
Level(op) ==
  CASE op = "*" -> 6
    [] op \in {"+", "-"} -> 5
    [] op \in {"<", ">"} -> 4
    [] op \in {"==", "!="} -> 3
    [] op = "and" -> 2
    [] op = "or" -> 1

Failed == [t |-> "error", v |-> 0]

(* The value of l op r; Failed where the run stops with a runtime error.   *)
Apply(op, l, r) ==
  CASE l = Failed -> Failed
    [] l # Failed /\ op = "and" -> IF isFalsy(l) THEN l ELSE r
    [] l # Failed /\ op = "or" -> IF isFalsy(l) THEN r ELSE l
    [] l # Failed /\ op \notin {"and", "or"} /\ r = Failed -> Failed
    [] l # Failed /\ r # Failed /\ op = "==" -> BOOL_VAL(l = r)
    [] l # Failed /\ r # Failed /\ op = "!=" -> BOOL_VAL(l # r)
    [] OTHER ->
         IF l.t # "number" \/ r.t # "number" THEN Failed
         ELSE CASE op = "*" -> NUMBER_VAL(l.v * r.v)
                [] op = "+" -> NUMBER_VAL(l.v + r.v)
                [] op = "-" -> NUMBER_VAL(l.v - r.v)
                [] op = "<" -> BOOL_VAL(l.v < r.v)
                [] op = ">" -> BOOL_VAL(l.v > r.v)

Operand(word) == NUMBER_VAL(strtod(TokenOf[word].lex))

(* a op1 b op2 c, grouped by level and, at equal levels, from the left.    *)
Grouped(op1, op2, abc) ==
  IF Level(op1) >= Level(op2)
  THEN Apply(op2, Apply(op1, Operand(abc[1]), Operand(abc[2])),
             Operand(abc[3]))
  ELSE Apply(op1, Operand(abc[1]),
             Apply(op2, Operand(abc[2]), Operand(abc[3])))

(* C23: print a op1 b op2 c; prints the value of the expression grouped by *)
(* precedence (FACTOR over TERM over COMPARISON over EQUALITY over AND     *)
(* over OR) and from left to right at equal precedence, or stops with a    *)
(* runtime error where that grouping applies an operator to a wrong type;  *)
(* 1 + 2 * 3 is 7 and 1 - 2 - 3 is -4; the expression leaves one value,    *)
(* the one print takes: at the statement's end the stack is empty.         *)
C23_Precedence ==
  /\ Grouped("+", "*", <<"1", "2", "3">>) = NUMBER_VAL(7)
  /\ Grouped("-", "-", <<"1", "2", "3">>) = NUMBER_VAL(-4)
  /\ \A op1 \in InfixOps : \A op2 \in InfixOps : \A abc \in Operands :
       scanner.tokens = Infix(op1, op2, abc) =>
         LET value == Grouped(op1, op2, abc)
         IN /\ cstack = <<>> =>
                 IF value = Failed
                 THEN /\ result.interpret = "INTERPRET_RUNTIME_ERROR"
                      /\ stdout = <<>>
                 ELSE /\ result.interpret = "INTERPRET_OK"
                      /\ stdout = <<[t |-> value.t, n |-> value.v,
                                     s |-> <<>>]>>
            /\ (At("run") /\ vm.frames # <<>>) =>
                 \A m \in MarksHere : Len(vm.stack) - frameOf(vm).slots = m[3]

(* C23 witness: the run of print 2 + 3 * 2; has ended.                     *)
C23_Witness ==
  /\ cstack = <<>>
  /\ scanner.tokens = Infix("+", "*", <<"2", "3", "2">>)
  /\ Len(stdout) = 1

----------------------------------------------------------------------------
InvalidTarget == "Invalid assignment target."

(* parsePrecedence has finished its infix loop in front of a '='.          *)
StrayEqual ==
  /\ At("parsePrecedence_1")
  /\ Top.v[1] <= Prec.ASSIGNMENT
  /\ Top.v[1] > getRule(parser.current.type).precedence
  /\ parser.current.type = "TOKEN_EQUAL"

(* The token after parser.current is a TOKEN_ERROR: advance() over         *)
(* parser.current reports it and panic mode starts there.                  *)
ErrorAhead ==
  /\ scanner.pos <= Len(scanner.tokens)
  /\ scanner.tokens[scanner.pos].type = "TOKEN_ERROR"

(* The parse functions that may take a '=' (canAssign) are called by a     *)
(* parsePrecedence of precedence ASSIGNMENT or lower; so is every variable *)
(* that has taken one and waits for the right-hand side.                   *)
CanAssignAtAssignment ==
  \A i \in 1..Len(cstack) :
    (\/ cstack[i].pc = "variable_1"
     \/ (cstack[i].pc = "variable" /\ cstack[i].v[1] = 1)) =>
      /\ i > 1
      /\ cstack[i - 1].pc = "parsePrecedence_1"
      /\ cstack[i - 1].v[1] <= Prec.ASSIGNMENT

SetOp(kind) == IF kind = "global" THEN Op.OP_SET_GLOBAL ELSE Op.OP_SET_LOCAL

AssignOutcome ==
  \A kind \in AssignKinds :
    /\ \A left \in NonTargets :
         scanner.tokens = Assign(kind, left) =>
           /\ audit.sets = {}
           /\ result.compiled =>
                /\ result.function = NULL
                /\ Len(CompileErrors) = 1
                /\ CompileErrors[1].msg = InvalidTarget
                /\ CompileErrors[1].type = "TOKEN_EQUAL"
    /\ \A left \in Targets :
         scanner.tokens = Assign(kind, left) =>
           /\ CompileErrors = <<>>
           /\ \A set \in audit.sets : set.op = SetOp(kind)
           /\ cstack = <<>> =>
                /\ result.interpret = "INTERPRET_OK"
                /\ Printed = <<1>>
                /\ {set.name : set \in audit.sets} =
                     {TokenOf[left[i]].lex : i \in {1, Len(left)}}

StrayEqualStep ==
  /\ StrayEqual =>
       /\ parser'.hadError
       /\ parser'.previous.type = "TOKEN_EQUAL"
       /\ audit'.errCalls > audit.errCalls
       /\ Written = IF parser.panicMode THEN {}
                    ELSE IF ErrorAhead
                    THEN {ErrorMessage(scanner.tokens[scanner.pos])}
                    ELSE {InvalidTarget}
       /\ vm' = vm
       /\ audit'.sets = audit.sets
  /\ InvalidTarget \in Written => StrayEqual
  /\ audit'.sets # audit.sets => At("variable_1")
  /\ CanAssignAtAssignment'
  /\ AssignOutcome'

(* C24: a '=' is taken as an assignment only by a variable parsed at       *)
(* precedence ASSIGNMENT or lower, which emits its OP_SET_LOCAL or         *)
(* OP_SET_GLOBAL after the right-hand side (var a; var b; a = 1; print a;  *)
(* prints 1); a '=' found after any other expression is consumed with      *)
(* "Invalid assignment target." reported (written unless panic mode, from  *)
(* an earlier error or from an error token right after the '=', suppresses *)
(* it) and without emitting anything: for a + b, a * b, 1, (a), *)
(* -a, !a, a and b, a or b, a == b, a < b, nil, 'a' on the left the        *)
(* compilation fails with that one message and no SET instruction is ever  *)
(* emitted.                                                                *)
C24_AssignmentTarget == [][StrayEqualStep]_vars

(* C24 witness: { var a; var b; (a) = 1; print a; } has been compiled.     *)
C24_Witness ==
  /\ result.compiled
  /\ scanner.tokens = Assign("local", <<"(", "a", ")">>)
  /\ CompileErrors # <<>>

----------------------------------------------------------------------------
TopLevelReturn == "Cannot return from top-level code."

Code(objects, fn) == objects[fn].code

(* What a returnStatement() call does in its first step.                   *)
ReturnStep ==
  At("returnStatement") =>
    /\ IF Last(current).functionType = "TYPE_SCRIPT"
       THEN /\ parser'.hadError
            /\ audit'.errCalls > audit.errCalls
            /\ Written = IF parser.panicMode THEN {} ELSE {TopLevelReturn}
       ELSE TopLevelReturn \notin Written
    /\ parser.current.type = "TOKEN_SEMICOLON" =>
         Code(vm'.objects, Last(current).function) =
           Code(vm.objects, Last(current).function)
             \o <<Op.OP_NIL, Op.OP_RETURN>>

ReturnOutcome ==
  \A value \in ReturnValues : \A depth \in 0..MaxDepth :
    /\ (scanner.tokens = Returning("script", value, depth)
          /\ result.compiled) =>
         /\ result.function = NULL
         /\ Len(CompileErrors) = 1
         /\ CompileErrors[1].msg = TopLevelReturn
         /\ CompileErrors[1].type = "TOKEN_RETURN"
    /\ scanner.tokens = Returning("function", value, depth) =>
         /\ CompileErrors = <<>>
         /\ cstack = <<>> =>
              /\ result.interpret = "INTERPRET_OK"
              /\ stdout = <<IF value = <<>> THEN Literal("nil")
                            ELSE Literal(value[1])>>

(* C25: a return statement compiled while the current Compiler is the      *)
(* script, at any block depth, reports "Cannot return from top-level       *)
(* code." (written unless panic mode suppresses it) and the compilation    *)
(* fails; a return in a function body never writes that message, and no    *)
(* other step does; return; adds OP_NIL, OP_RETURN to the chunk, so        *)
(* fun f() { return; } print f(); prints nil.                              *)
C25_TopLevelReturn ==
  [][/\ ReturnStep
     /\ TopLevelReturn \in Written => At("returnStatement")
     /\ ReturnOutcome']_vars

(* C25 witness: { { return; } } print 2; has been compiled, with the       *)
(* message.                                                                *)
C25_Witness ==
  /\ result.compiled
  /\ scanner.tokens = Returning("script", <<>>, 2)
  /\ CompileErrors # <<>>

----------------------------------------------------------------------------
(* The top frame evaluates a loop's condition again: the last time it did, *)
(* the scanner was at audit.turns[..].pos.                                 *)
NextTurn ==
  /\ cstack # <<>>
  /\ Top.pc \in LoopHeads
  /\ Len(audit.turns) >= Len(cstack)
  /\ audit.turns[Len(cstack)].pc = Top.pc

(* A token was consumed since: the scanner has moved on, or parser.current *)
(* has become the EOF token.                                               *)
Consumed ==
  LET last == audit.turns[Len(cstack)]
  IN \/ scanner.pos > last.pos
     \/ parser.current.type = "TOKEN_EOF" /\ ~last.eof

(* This step leaves the loop, at the EOF token.                            *)
StopsAtEOF ==
  /\ parser.current.type = "TOKEN_EOF"
  /\ \/ Len(cstack') < Len(cstack)
     \/ cstack'[Len(cstack)].pc \notin LoopHeads

TurnStep == NextTurn => (Consumed \/ StopsAtEOF)

InitLive ==
  /\ scanner \in {[tokens |-> src, pos |-> 1] : src \in CutOff \cup Damaged}
  /\ parser = [previous |-> NoTok, current |-> NoTok, hadError |-> FALSE,
               panicMode |-> FALSE]
  /\ current = <<>>
  /\ vm = initVM
  /\ errout = <<>>
  /\ stdout = <<>>
  /\ cstack = <<Enter("interpret")>>
  /\ result = [compiled |-> FALSE, function |-> NULL, interpret |-> ""]
  /\ audit = NoAudit

(* The program is one thread that runs on while it has a step to take.     *)
SpecLive == InitLive /\ [][Next]_vars /\ WF_vars(Next)

(* C26: compile() returns for every source, and between two evaluations    *)
(* of the condition of the declaration loop of compile() or block(), of    *)
(* synchronize()'s loop, of the infix loop, of the argument loop or of the *)
(* parameter loop a token was consumed, unless the loop stops there at the *)
(* EOF token.                                                              *)
C26_Terminates == <>result.compiled /\ [][TurnStep]_vars

(* C26 witness: compile() has returned for the program cut off inside the  *)
(* argument list of the call in the loop's body, after synchronize() has   *)
(* met the EOF token.                                                      *)
C26_Witness ==
  /\ result.compiled
  /\ scanner.tokens = Scan(SubSeq(Whole, 1, 31))
  /\ CompileErrors # <<>>

====
